---- MODULE Spec2Model ----
(***************************************************************************)
(* A model of the WOLS specimen-label library (wemush/specimen-labels-js): *)
(* the migration engine, the validator, the parser and serializer, the     *)
(* compact-URL encoder/decoder, the QR content selection and the           *)
(* encryption adapter.                                                     *)
(*                                                                         *)
(* Strings the code inspects character by character (versions, ids, URLs)  *)
(* are sequences of one-character strings; strings the code only compares  *)
(* or copies are TLA+ strings.                                             *)
(***************************************************************************)
EXTENDS Integers, Sequences, FiniteSets, TLC

VARIABLES
    MIGRATION_REGISTRY, \* utils/migration: the ordered list of migrations
    mig,                \* the migrate()/canMigrate() call in progress
    val,                \* the validateSpecimen() call: its input, options and result
    par,                \* a specimen on its way through serializeSpecimen() and parseSpecimen()
    enc,                \* a specimen on its way through encryptSpecimen() and decryptSpecimen()
    SPECIES_CODES,      \* compact-url: the table from species code to species
    SPECIES_TO_CODE,    \* compact-url: the table from species to species code
    url,                \* a compact URL or QR content being written and read back
    TYPE_ALIAS_REGISTRY, \* types: the map from alias to specimen type
    counter,            \* utils/cuid: the counter of the ids made
    cre,                \* the createSpecimen() call: its input and what came of it
    cmp,                \* the compareVersions() call: its arguments and result
    qrLib,              \* qr/generate: the cached reference to the qrcode library
    qrLibLoadAttempted, \* qr/generate: a load of the library has been started
    installed,          \* the qrcode package can be imported
    imports,            \* the dynamic imports of qrcode started so far
    calls               \* the QR calls made, each with its place and outcome

migrationVars == <<MIGRATION_REGISTRY, mig>>
compactUrlVars == <<SPECIES_CODES, SPECIES_TO_CODE, url>>
specimenVars == <<TYPE_ALIAS_REGISTRY, counter, cre>>
qrVars == <<qrLib, qrLibLoadAttempted, installed, imports, calls>>

vars == <<migrationVars, val, par, enc, compactUrlVars, specimenVars, cmp, qrVars>>

\* what each module leaves alone: the state of the others
otherThanMigration == <<val, par, enc, compactUrlVars, specimenVars, cmp, qrVars>>
otherThanValidation == <<migrationVars, par, enc, compactUrlVars, specimenVars, cmp, qrVars>>
otherThanParser == <<migrationVars, val, enc, compactUrlVars, specimenVars, cmp, qrVars>>
otherThanCrypto == <<migrationVars, val, par, compactUrlVars, specimenVars, cmp, qrVars>>
otherThanCompactUrl == <<migrationVars, val, par, enc, specimenVars, cmp, qrVars>>
otherThanSpecimen == <<migrationVars, val, par, enc, compactUrlVars, cmp, qrVars>>
otherThanCompare == <<migrationVars, val, par, enc, compactUrlVars, specimenVars, qrVars>>
otherThanQR == <<migrationVars, val, par, enc, compactUrlVars, specimenVars, cmp>>

-----------------------------------------------------------------------------
(* Bounds of the model.                                                    *)

\* most migrations registered at once
MaxRegistry == 2
\* most turns of the loop body that one migrate()/canMigrate() call is followed for
MaxWalk == 3
\* most QR calls made in one run
MaxCalls == 2

-----------------------------------------------------------------------------
(* JavaScript strings as character sequences.                              *)

Digits == {"0", "1", "2", "3", "4", "5", "6", "7", "8", "9"}

\* the printable ASCII characters of codes 32 to 95, and of codes 97 to 126
AsciiLow ==
    <<" ", "!", "\"", "#", "$", "%", "&", "'", "(", ")", "*", "+", ",", "-", ".", "/",
      "0", "1", "2", "3", "4", "5", "6", "7", "8", "9", ":", ";", "<", "=", ">", "?",
      "@", "A", "B", "C", "D", "E", "F", "G", "H", "I", "J", "K", "L", "M", "N", "O",
      "P", "Q", "R", "S", "T", "U", "V", "W", "X", "Y", "Z", "[", "\\", "]", "^", "_">>
AsciiHigh ==
    <<"a", "b", "c", "d", "e", "f", "g", "h", "i", "j", "k", "l", "m", "n", "o",
      "p", "q", "r", "s", "t", "u", "v", "w", "x", "y", "z", "{", "|", "}", "~">>

\* the UTF-16 code unit of a character, and the character of a code unit
CharCode(c) ==
    IF \E i \in 1..Len(AsciiLow) : AsciiLow[i] = c
    THEN 31 + CHOOSE i \in 1..Len(AsciiLow) : AsciiLow[i] = c
    ELSE 96 + CHOOSE i \in 1..Len(AsciiHigh) : AsciiHigh[i] = c
CharOf(n) == IF n <= 95 THEN AsciiLow[n - 31] ELSE AsciiHigh[n - 96]

DigitValue(c) == CharCode(c) - CharCode("0")

\* a < b on JavaScript strings: code unit by code unit, a proper prefix first
RECURSIVE StrLess(_, _)
StrLess(a, b) ==
    IF b = <<>> THEN FALSE
    ELSE IF a = <<>> THEN TRUE
    ELSE IF Head(a) # Head(b) THEN CharCode(Head(a)) < CharCode(Head(b))
    ELSE StrLess(Tail(a), Tail(b))

\* length of the longest run of digits of s that starts at position i
RECURSIVE DigitRun(_, _)
DigitRun(s, i) ==
    IF i <= Len(s) /\ s[i] \in Digits THEN 1 + DigitRun(s, i + 1) ELSE 0

\* parseInt(s.slice(i - 1, i - 1 + n), 10) for a run of n digits
RECURSIVE ParseInt(_, _, _)
ParseInt(s, i, n) ==
    IF n = 0 THEN 0
    ELSE 10 * ParseInt(s, i, n - 1) + DigitValue(s[i + n - 1])

-----------------------------------------------------------------------------
(* JavaScript values.  A value is a record whose field k is its kind and   *)
(* whose field v is its payload: the characters of a string, the integer   *)
(* of a number, the <<key, value>> properties of an object in insertion    *)
(* order, the elements of an array.  Numbers of the model are integers.    *)

Undefined == [k |-> "undefined", v |-> 0]
Null == [k |-> "null", v |-> 0]
Str(s) == [k |-> "string", v |-> s]
Num(n) == [k |-> "number", v |-> n]
Obj(props) == [k |-> "object", v |-> props]
Arr(items) == [k |-> "array", v |-> items]
\* a built-in function, by its name
NativeFunction(name) == [k |-> "function", v |-> name]
\* the number NaN
NaN == [k |-> "NaN", v |-> 0]
\* Symbol(description)
Sym(description) == [k |-> "symbol", v |-> description]

\* typeof x
TypeOf(x) ==
    IF x.k \in {"object", "array", "null"} THEN "object"
    ELSE IF x.k = "NaN" THEN "number"
    ELSE x.k

\* o[key] for a property the code names: the own property, or undefined
Get(o, key) ==
    LET hits == SelectSeq(o.v, LAMBDA p : p[1] = key)
    IN  IF hits = <<>> THEN Undefined ELSE hits[1][2]

\* o[key] = x: an existing property keeps its place, a new one goes last
Put(o, key, x) ==
    IF \E i \in 1..Len(o.v) : o.v[i][1] = key
    THEN Obj([i \in 1..Len(o.v) |-> IF o.v[i][1] = key THEN <<key, x>> ELSE o.v[i]])
    ELSE Obj(Append(o.v, <<key, x>>))

\* delete o[key]
Delete(o, key) == Obj(SelectSeq(o.v, LAMBDA p : p[1] # key))

\* Object.keys(o)
ObjectKeys(o) == [i \in 1..Len(o.v) |-> o.v[i][1]]

\* value === undefined || value === null
IsNullish(x) == x.k \in {"undefined", "null"}

\* the characters String.prototype.trim removes
Whitespace == {" ", "\t", "\n", "\r"}

-----------------------------------------------------------------------------
(* types.ts: constants and type guards.                                    *)

WOLS_CONTEXT == <<"h", "t", "t", "p", "s", ":", "/", "/", "w", "e", "m", "u", "s", "h", ".", "c", "o", "m", "/", "w", "o", "l", "s", "/", "v", "1">>

SPECIMEN_TYPES == <<<<"C", "U", "L", "T", "U", "R", "E">>, <<"S", "P", "A", "W", "N">>, <<"S", "U", "B", "S", "T", "R", "A", "T", "E">>, <<"F", "R", "U", "I", "T", "I", "N", "G">>, <<"H", "A", "R", "V", "E", "S", "T">>>>

GROWTH_STAGES ==
    <<<<"I", "N", "O", "C", "U", "L", "A", "T", "I", "O", "N">>, <<"I", "N", "C", "U", "B", "A", "T", "I", "O", "N">>, <<"C", "O", "L", "O", "N", "I", "Z", "A", "T", "I", "O", "N">>, <<"P", "R", "I", "M", "O", "R", "D", "I", "A">>,
      <<"F", "R", "U", "I", "T", "I", "N", "G">>, <<"S", "E", "N", "E", "S", "C", "E", "N", "C", "E">>, <<"H", "A", "R", "V", "E", "S", "T">>>>

\* list.includes(x)
Includes(list, x) == \E i \in 1..Len(list) : list[i] = x

isSpecimenType(value) == value.k = "string" /\ Includes(SPECIMEN_TYPES, value.v)

isGrowthStage(value) == value.k = "string" /\ Includes(GROWTH_STAGES, value.v)

-----------------------------------------------------------------------------
(* utils/iso8601.ts.                                                       *)

\* the n characters of s from position i on are digits
AllDigits(s, i, n) == i + n - 1 <= Len(s) /\ \A j \in i..(i + n - 1) : s[j] \in Digits

ISO8601_REGEX(s) ==
    /\ Len(s) >= 20
    /\ AllDigits(s, 1, 4) /\ s[5] = "-" /\ AllDigits(s, 6, 2) /\ s[8] = "-"
    /\ AllDigits(s, 9, 2) /\ s[11] = "T"
    /\ AllDigits(s, 12, 2) /\ s[14] = ":" /\ AllDigits(s, 15, 2) /\ s[17] = ":"
    /\ AllDigits(s, 18, 2)
    /\ LET frac == IF s[20] = "." THEN DigitRun(s, 21) ELSE 0
           z == IF s[20] = "." THEN 21 + frac ELSE 20
       IN  /\ s[20] = "." => frac \in 1..3
           /\ z <= Len(s)
           /\ \/ s[z] = "Z" /\ Len(s) = z
              \/ /\ s[z] \in {"+", "-"}
                 /\ Len(s) = z + 5
                 /\ AllDigits(s, z + 1, 2) /\ s[z + 3] = ":" /\ AllDigits(s, z + 4, 2)

\* !isNaN(new Date(s).getTime()) for a string the pattern accepts: every field
\* in its range.  (A day past the end of its month, and hour 24, are parsed
\* differently by different engines; the model draws no such input.)
DateParses(s) ==
    /\ ParseInt(s, 6, 2) \in 1..12
    /\ ParseInt(s, 9, 2) \in 1..31
    /\ ParseInt(s, 12, 2) <= 23
    /\ ParseInt(s, 15, 2) <= 59
    /\ ParseInt(s, 18, 2) <= 59
    /\ s[Len(s)] # "Z" =>
           ParseInt(s, Len(s) - 4, 2) <= 23 /\ ParseInt(s, Len(s) - 1, 2) <= 59

isValidISO8601(value) == ISO8601_REGEX(value) /\ DateParses(value)

-----------------------------------------------------------------------------
(* validator.ts.                                                           *)

LowerAlnum ==
    Digits \cup {"a", "b", "c", "d", "e", "f", "g", "h", "i", "j", "k", "l", "m",
                 "n", "o", "p", "q", "r", "s", "t", "u", "v", "w", "x", "y", "z"}

\* s.startsWith(prefix)
StartsWith(s, prefix) ==
    Len(s) >= Len(prefix) /\ SubSeq(s, 1, Len(prefix)) = prefix

\* /^wemush:[a-z0-9]+$/
SPECIMEN_ID_PATTERN(s) ==
    /\ StartsWith(s, <<"w", "e", "m", "u", "s", "h", ":">>)
    /\ Len(s) > 7
    /\ \A i \in 8..Len(s) : s[i] \in LowerAlnum

\* /^\d+\.\d+\.\d+$/
SEMVER_PATTERN(s) ==
    LET n1 == DigitRun(s, 1)
        n2 == DigitRun(s, n1 + 2)
        n3 == DigitRun(s, n1 + n2 + 3)
    IN  /\ n1 > 0 /\ Len(s) > n1 /\ s[n1 + 1] = "."
        /\ n2 > 0 /\ Len(s) > n1 + n2 + 1 /\ s[n1 + n2 + 2] = "."
        /\ n3 > 0 /\ Len(s) = n1 + n2 + n3 + 2

\* /^(P|F\d+)$/
GENERATION_PATTERN(s) ==
    \/ s = <<"P">>
    \/ Len(s) >= 2 /\ s[1] = "F" /\ DigitRun(s, 2) = Len(s) - 1

KNOWN_FIELDS ==
    {"@context", "@type", "id", "version", "type", "species", "strain", "stage",
     "created", "batch", "organization", "creator", "custom", "signature"}

\* a message and, where the code's template interpolates one, the value in it
error(path, code, message) == [path |-> path, code |-> code, message |-> message]

warning(path, code, message, suggestion) ==
    [path |-> path, code |-> code, message |-> message, suggestion |-> suggestion]

isNonEmptyString(value) ==
    value.k = "string" /\ \E i \in 1..Len(value.v) : value.v[i] \notin Whitespace

isPlainObject(value) == value.k = "object"

\* errors.push(e), on the pair of lists a validation fills; this variant
\* keeps the first error only
PushFirstErrorOnly(out, e) ==
    IF out.errors = <<>> THEN [out EXCEPT !.errors = Append(@, e)] ELSE out

\* `${value}`: ToString(value) raises a TypeError for a Symbol
TemplateThrows(value) == value.k = "symbol"

\* the TypeError leaves the validator: nothing is pushed and the call ends
Throw(out) == [out EXCEPT !.thrown = TRUE]

\* errors.push(e)
PushError(out, e) == [out EXCEPT !.errors = Append(@, e)]

\* warnings.push(w)
PushWarning(out, w) == [out EXCEPT !.warnings = Append(@, w)]

validateContext(value, out, options) ==
    IF IsNullish(value)
    THEN PushError(out, error("@context", "WOLS_INVALID_CONTEXT", <<"@context is required">>))
    ELSE IF ~(value.k = "string" /\ value.v = WOLS_CONTEXT)
    THEN IF TemplateThrows(value) THEN Throw(out) ELSE
         PushError(out, error("@context", "WOLS_INVALID_CONTEXT",
                              <<"@context must be WOLS_CONTEXT, got", value>>))
    ELSE out

validateType(value, out, options) ==
    IF IsNullish(value)
    THEN PushError(out, error("@type", "WOLS_INVALID_TYPE", <<"@type is required">>))
    ELSE IF ~(value.k = "string" /\ value.v = <<"S", "p", "e", "c", "i", "m", "e", "n">>)
    THEN IF TemplateThrows(value) THEN Throw(out) ELSE
         PushError(out, error("@type", "WOLS_INVALID_TYPE",
                              <<"@type must be 'Specimen', got", value>>))
    ELSE out

validateId(value, out, options) ==
    IF IsNullish(value)
    THEN PushError(out, error("id", "WOLS_REQUIRED_FIELD", <<"id is required">>))
    ELSE IF TypeOf(value) # "string"
    THEN PushError(out, error("id", "WOLS_INVALID_ID_FORMAT", <<"id must be a string">>))
    ELSE IF ~SPECIMEN_ID_PATTERN(value.v)
    THEN PushError(out, error("id", "WOLS_INVALID_ID_FORMAT",
                              <<"id must match pattern 'wemush:[a-z0-9]+', got", value>>))
    ELSE out

validateVersion(value, out, options) ==
    IF IsNullish(value)
    THEN PushError(out, error("version", "WOLS_REQUIRED_FIELD", <<"version is required">>))
    ELSE IF TypeOf(value) # "string"
    THEN PushError(out, error("version", "WOLS_INVALID_VERSION", <<"version must be a string">>))
    ELSE IF ~SEMVER_PATTERN(value.v)
    THEN PushError(out, error("version", "WOLS_INVALID_VERSION",
                              <<"version must be valid semver (major.minor.patch), got", value>>))
    ELSE out

validateSpecimenType(value, out, options) ==
    IF IsNullish(value)
    THEN PushError(out, error("type", "WOLS_REQUIRED_FIELD", <<"type is required">>))
    ELSE IF ~isSpecimenType(value)
    THEN IF TemplateThrows(value) THEN Throw(out) ELSE
         PushError(out, error("type", "WOLS_INVALID_SPECIMEN_TYPE",
                              <<"type must be one of SPECIMEN_TYPES, got", value>>))
    ELSE out

validateSpecies(value, out, options) ==
    IF IsNullish(value)
    THEN PushError(out, error("species", "WOLS_REQUIRED_FIELD", <<"species is required">>))
    ELSE IF ~isNonEmptyString(value)
    THEN PushError(out, error("species", "WOLS_REQUIRED_FIELD",
                              <<"species must be a non-empty string">>))
    ELSE out

validateStage(value, out, options) ==
    IF IsNullish(value) THEN out
    ELSE IF isGrowthStage(value) THEN out
    ELSE IF TemplateThrows(value) THEN Throw(out)
    ELSE IF options.level = "lenient"
    THEN PushWarning(out, warning("stage", "UNKNOWN_GROWTH_STAGE",
                                  <<"Unknown growth stage", value>>,
                                  "Use one of: INOCULATION, COLONIZATION, FRUITING, HARVEST"))
    ELSE PushError(out, error("stage", "INVALID_GROWTH_STAGE",
                              <<"stage must be one of the growth stages, got", value>>))

\* validateCreated with the test of typeof moved below the test of the level
validateCreatedLenientFirst(value, out, options) ==
    IF IsNullish(value) THEN out
    ELSE IF TypeOf(value) = "string" /\ isValidISO8601(value.v) THEN out
    ELSE IF options.level = "lenient"
    THEN PushWarning(out, warning("created", "WOLS_INVALID_DATE_FORMAT",
                                  <<"Invalid ISO 8601 date format:", value>>,
                                  "Use format: YYYY-MM-DDTHH:mm:ssZ"))
    ELSE PushError(out, error("created", "WOLS_INVALID_DATE_FORMAT",
                              <<"created must be valid ISO 8601 datetime, got", value>>))

validateCreated(value, out, options) ==
    IF IsNullish(value) THEN out
    ELSE IF TypeOf(value) # "string"
    THEN PushError(out, error("created", "WOLS_INVALID_DATE_FORMAT",
                              <<"created must be a string">>))
    ELSE IF isValidISO8601(value.v) THEN out
    ELSE IF options.level = "lenient"
    THEN PushWarning(out, warning("created", "WOLS_INVALID_DATE_FORMAT",
                                  <<"Invalid ISO 8601 date format:", value>>,
                                  "Use format: YYYY-MM-DDTHH:mm:ssZ"))
    ELSE PushError(out, error("created", "WOLS_INVALID_DATE_FORMAT",
                              <<"created must be valid ISO 8601 datetime, got", value>>))

validateStrain(value, out, options) ==
    IF IsNullish(value) THEN out
    ELSE IF ~isPlainObject(value)
    THEN PushError(out, error("strain", "WOLS_INVALID_FORMAT", <<"strain must be an object">>))
    ELSE
    LET generation == Get(value, "generation")
        clonalGeneration == Get(value, "clonalGeneration")
        source == Get(value, "source")
        lineage == Get(value, "lineage")
        o1 == IF ~isNonEmptyString(Get(value, "name"))
              THEN PushError(out, error("strain.name", "WOLS_REQUIRED_FIELD",
                                        <<"strain.name is required">>))
              ELSE out
        o2 == IF /\ generation.k # "undefined"
                 /\ (TypeOf(generation) # "string" \/ ~GENERATION_PATTERN(generation.v))
              THEN IF TemplateThrows(generation) THEN Throw(o1) ELSE
                   PushError(o1, error("strain.generation", "WOLS_INVALID_GENERATION",
                                       <<"strain.generation must match pattern 'P' or 'F<number>', got",
                                         generation>>))
              ELSE o1
        o3 == IF /\ clonalGeneration.k # "undefined"
                 /\ (TypeOf(clonalGeneration) # "number" \/ clonalGeneration.v < 1)
              THEN PushError(o2, error("strain.clonalGeneration", "WOLS_INVALID_FORMAT",
                                       <<"strain.clonalGeneration must be a positive integer">>))
              ELSE o2
        o4 == IF source.k # "undefined" /\ TypeOf(source) # "string"
              THEN PushError(o3, error("strain.source", "WOLS_INVALID_FORMAT",
                                       <<"strain.source must be a string">>))
              ELSE o3
    IN  IF lineage.k # "undefined" /\ TypeOf(lineage) # "string"
        THEN PushError(o4, error("strain.lineage", "WOLS_INVALID_FORMAT",
                                 <<"strain.lineage must be a string">>))
        ELSE o4

RECURSIVE WarnUnknown(_, _, _)
WarnUnknown(keys, i, out) ==
    IF i > Len(keys) THEN out
    ELSE WarnUnknown(keys, i + 1,
             IF keys[i] \in KNOWN_FIELDS THEN out
             ELSE PushWarning(out, warning(keys[i], "UNKNOWN_FIELD",
                                           <<"Unknown field", keys[i]>>,
                                           "Unknown fields should be placed in the custom object")))

\* checkUnknownFields without its first three lines: the option is not read
checkUnknownFieldsAlways(specimen, out, options) ==
    WarnUnknown(ObjectKeys(specimen), 1, out)

checkUnknownFields(specimen, out, options) ==
    IF options.allowUnknownFields THEN out
    ELSE WarnUnknown(ObjectKeys(specimen), 1, out)

\* ValidationOptions: a field the caller leaves out is "unset"
NoOptions == [allowUnknownFields |-> "unset", level |-> "unset",
              idMode |-> "unset", customIdValidator |-> "unset"]

\* the pair of lists a validation starts from
NoFindings == [errors |-> <<>>, warnings |-> <<>>, thrown |-> FALSE]

\* return { valid: errors.length === 0, errors, warnings }, which a TypeError
\* raised on the way never reaches: the caller then has no result
ValidationResult(out) ==
    IF out.thrown
    THEN [valid |-> FALSE, errors |-> <<>>, warnings |-> <<>>, thrown |-> TRUE]
    ELSE [valid |-> Len(out.errors) = 0, errors |-> out.errors, warnings |-> out.warnings,
          thrown |-> FALSE]

validateSpecimen(specimen, options) ==
    LET opts == [allowUnknownFields |->
                     IF options.allowUnknownFields = "unset" THEN FALSE
                     ELSE options.allowUnknownFields = "true",
                 level |-> IF options.level = "unset" THEN "strict" ELSE options.level]
    IN  IF IsNullish(specimen)
        THEN [valid |-> FALSE, warnings |-> <<>>, thrown |-> FALSE,
              errors |-> <<error("", "WOLS_REQUIRED_FIELD", <<"Specimen is required">>)>>]
        ELSE IF ~isPlainObject(specimen)
        THEN [valid |-> FALSE, warnings |-> <<>>, thrown |-> FALSE,
              errors |-> <<error("", "WOLS_INVALID_FORMAT", <<"Specimen must be an object">>)>>]
        ELSE
        LET o1 == validateContext(Get(specimen, "@context"), NoFindings, opts)
            o2 == validateType(Get(specimen, "@type"), o1, opts)
            o3 == validateId(Get(specimen, "id"), o2, opts)
            o4 == validateVersion(Get(specimen, "version"), o3, opts)
            o5 == validateSpecimenType(Get(specimen, "type"), o4, opts)
            o6 == validateSpecies(Get(specimen, "species"), o5, opts)
            o7 == validateStage(Get(specimen, "stage"), o6, opts)
            o8 == validateCreated(Get(specimen, "created"), o7, opts)
            o9 == validateStrain(Get(specimen, "strain"), o8, opts)
        IN  ValidationResult(checkUnknownFields(specimen, o9, opts))

\* the validator before any call
ValIdle == [pc |-> "idle", specimen |-> Undefined, options |-> NoOptions,
            result |-> ValidationResult(NoFindings)]

-----------------------------------------------------------------------------
(* JSON text.  A text is well formed or not; a well-formed one holds the    *)
(* document it spells, a value without undefined in it.                    *)

\* what JSON.stringify keeps of a value: a property whose value is undefined
\* is left out, an undefined array element becomes null
RECURSIVE Jsonable(_)
Jsonable(x) ==
    CASE x.k = "object" ->
             LET kept == SelectSeq(x.v, LAMBDA p : p[2].k # "undefined")
             IN  Obj([i \in 1..Len(kept) |-> <<kept[i][1], Jsonable(kept[i][2])>>])
      [] x.k = "array" ->
             Arr([i \in 1..Len(x.v) |->
                     IF x.v[i].k = "undefined" THEN Null ELSE Jsonable(x.v[i])])
      [] OTHER -> x

\* JSON.stringify(x), x an object
JSONStringify(x) == [wellFormed |-> TRUE, doc |-> Jsonable(x)]

\* a text JSON.parse throws a SyntaxError on
MalformedText == [wellFormed |-> FALSE, doc |-> Undefined]

\* no text at all
NoText == [wellFormed |-> FALSE, doc |-> Null]

-----------------------------------------------------------------------------
(* utils/errors.ts.                                                        *)

WolsErrorCode ==
    {"WOLS_PARSE_ERROR", "WOLS_INVALID_JSON", "WOLS_INVALID_FORMAT", "WOLS_INVALID_CONTEXT",
     "WOLS_INVALID_TYPE", "WOLS_INVALID_ID_FORMAT", "WOLS_INVALID_VERSION",
     "WOLS_INVALID_SPECIMEN_TYPE", "WOLS_REQUIRED_FIELD", "WOLS_INVALID_DATE_FORMAT",
     "WOLS_INVALID_GENERATION", "WOLS_INVALID_URL", "WOLS_ENCRYPTION_ERROR",
     "WOLS_DECRYPTION_ERROR", "WOLS_INVALID_KEY", "WOLS_SIZE_EXCEEDED", "WOLS_UNKNOWN_ERROR"}

\* an error object: its class, its code, its message, the path of its details
\* ("" when the details name none) and the validation errors it carries
WolsError(name, code, message, path, errors) ==
    [name |-> name, code |-> code, message |-> message, path |-> path, errors |-> errors]

WolsParseError(code, message, path) == WolsError("WolsParseError", code, message, path, <<>>)

WolsValidationError(message, errors) ==
    WolsError("WolsValidationError", "WOLS_INVALID_FORMAT", message, "", errors)

WolsEncryptionError(code, message, path) ==
    WolsError("WolsEncryptionError", code, message, path, <<>>)

NoError == WolsError("none", "none", <<>>, "", <<>>)

\* parseErrorFromException, on the SyntaxError of JSON.parse
parseErrorFromException ==
    WolsParseError("WOLS_INVALID_JSON", <<"the SyntaxError's message">>, "")

-----------------------------------------------------------------------------
(* specimen.ts: serializeSpecimen.                                         *)

\* ordered[key] = specimen[key] when the specimen defines it
CopyDefined(ordered, specimen, key) ==
    IF Get(specimen, key).k # "undefined" THEN Put(ordered, key, Get(specimen, key))
    ELSE ordered

\* the keys serializeSpecimen writes first, whatever their values, and those
\* it adds after them
RequiredKeys == <<"@context", "@type", "id", "version", "type", "species">>
OptionalKeys ==
    <<"strain", "stage", "created", "batch", "organization", "creator", "custom",
      "signature", "_meta">>

RECURSIVE CopyAllDefined(_, _, _, _)
CopyAllDefined(ordered, specimen, keys, i) ==
    IF i > Len(keys) THEN ordered
    ELSE CopyAllDefined(CopyDefined(ordered, specimen, keys[i]), specimen, keys, i + 1)

serializeSpecimen(specimen) ==
    LET ordered == Obj([i \in 1..Len(RequiredKeys) |->
                           <<RequiredKeys[i], Get(specimen, RequiredKeys[i])>>])
    IN  JSONStringify(CopyAllDefined(ordered, specimen, OptionalKeys, 1))

-----------------------------------------------------------------------------
(* parser.ts: parseSpecimen.                                               *)

getFirstErrorCode(errors) ==
    IF Len(errors) = 0 THEN "WOLS_INVALID_FORMAT"
    ELSE IF errors[1].code \in WolsErrorCode THEN errors[1].code
    ELSE "WOLS_INVALID_FORMAT"

ParseFailure(e) == [success |-> FALSE, data |-> Undefined, error |-> e]
ParseSuccess(specimen) == [success |-> TRUE, data |-> specimen, error |-> NoError]
NoParse == ParseFailure(NoError)

\* specimen[key] = data[key] when data[key] is neither undefined nor null
CopyPresent(specimen, data, key) ==
    IF ~IsNullish(Get(data, key)) THEN Put(specimen, key, Get(data, key)) ELSE specimen

parseSpecimen(json) ==
    IF ~json.wellFormed THEN ParseFailure(parseErrorFromException)
    ELSE
    LET parsed == json.doc
        validation == validateSpecimen(parsed, NoOptions)
    IN  IF ~isPlainObject(parsed)
        THEN ParseFailure(WolsParseError("WOLS_INVALID_FORMAT",
                                         <<"Specimen must be a JSON object">>, ""))
        ELSE IF ~validation.valid
        THEN IF Len(validation.errors) = 1
             THEN ParseFailure(WolsParseError(getFirstErrorCode(validation.errors),
                                              validation.errors[1].message,
                                              validation.errors[1].path))
             ELSE ParseFailure(WolsValidationError(
                      <<"Validation failed:",
                        [i \in 1..Len(validation.errors) |->
                            <<validation.errors[i].path, validation.errors[i].message>>]>>,
                      validation.errors))
        ELSE
        LET s0 == Obj(<< <<"@context", Str(WOLS_CONTEXT)>>, <<"@type", Str(<<"S", "p", "e", "c", "i", "m", "e", "n">>)>>,
                         <<"id", Get(parsed, "id")>>, <<"version", Get(parsed, "version")>>,
                         <<"type", Get(parsed, "type")>>, <<"species", Get(parsed, "species")>> >>)
            s1 == CopyPresent(s0, parsed, "strain")
            s2 == CopyPresent(s1, parsed, "stage")
        IN  ParseSuccess(CopyAllDefined(s2, parsed,
                                        <<"created", "batch", "organization", "creator",
                                          "custom", "signature", "_meta">>, 1))

\* the serializer and the parser before any call
ParIdle == [pc |-> "idle", specimen |-> Undefined, json |-> NoText, result |-> NoParse,
            emitted |-> NoText]

-----------------------------------------------------------------------------
(* crypto/encrypt.ts and crypto/decrypt.ts.  Keys, ciphertexts and their   *)
(* encodings are symbolic: a derived key is the password and iteration     *)
(* count it was derived from (the salt is fixed), a ciphertext is what was  *)
(* sealed and under which key and IV, and AES-GCM opens a ciphertext        *)
(* exactly when key and IV are those it was sealed with and no byte of it   *)
(* has changed.                                                            *)

\* crypto/encrypt.ts
DEFAULT_PBKDF2_ITERATIONS == 100000
MIN_PBKDF2_ITERATIONS == 10000
\* crypto/decrypt.ts
PBKDF2_ITERATIONS == 100000

\* a caller's key: a password (a string), or a CryptoKey
Password(p) == [kind |-> "string", secret |-> p, iterations |-> 0]
CryptoKey(secret, iterations) == [kind |-> "CryptoKey", secret |-> secret, iterations |-> iterations]

\* crypto/encrypt.ts validateIterations; "throws" when the count is below the floor
validateIterations(iterations) ==
    LET count == IF iterations.k = "undefined" THEN DEFAULT_PBKDF2_ITERATIONS ELSE iterations.v
    IN  IF count < MIN_PBKDF2_ITERATIONS THEN [throws |-> TRUE, count |-> count]
        ELSE [throws |-> FALSE, count |-> count]

\* crypto/encrypt.ts deriveKey
deriveKey(password, iterations) == CryptoKey(password, iterations)

\* crypto/decrypt.ts deriveKey
decryptDeriveKey(password) == CryptoKey(password, PBKDF2_ITERATIONS)

\* crypto.subtle.encrypt({name: 'AES-GCM', iv}, key, plaintext)
AesGcmEncrypt(key, iv, plaintext) ==
    [key |-> key, iv |-> iv, plaintext |-> plaintext, intact |-> TRUE]

\* crypto.subtle.decrypt succeeds
AesGcmOpens(key, iv, ciphertext) ==
    ciphertext.intact /\ ciphertext.key = key /\ ciphertext.iv = iv

\* toBase64Url: the string that encodes the bytes
toBase64Url(bytes) == [present |-> TRUE, decodable |-> TRUE, bytes |-> bytes]

\* an envelope field that is missing, or the empty string
NoBytes == [key |-> CryptoKey("", 0), iv |-> 0, plaintext |-> NoText, intact |-> FALSE]
Missing == [present |-> FALSE, decodable |-> FALSE, bytes |-> NoBytes]

\* the IV's bytes, encoded
IvString(iv) == [present |-> TRUE, decodable |-> TRUE, bytes |-> iv]
MissingIv == [present |-> FALSE, decodable |-> FALSE, bytes |-> 0]

NoEnvelope ==
    [encrypted |-> FALSE, payload |-> Missing, iv |-> MissingIv, algorithm |-> "",
     cryptoVersion |-> "", iterations |-> 0]

\* encryptSpecimen(specimen, {key, iterations}), with the IV the random
\* source gave; "throws" stands for the rejected promise
encryptSpecimen(specimen, key, iterations, iv) ==
    LET checked == validateIterations(iterations)
        cryptoKey == IF key.kind = "string" THEN deriveKey(key.secret, checked.count) ELSE key
        plaintext == serializeSpecimen(specimen)
    IN  IF checked.throws THEN [throws |-> TRUE, envelope |-> NoEnvelope]
        ELSE [throws |-> FALSE,
              envelope |-> [encrypted |-> TRUE,
                            payload |-> toBase64Url(AesGcmEncrypt(cryptoKey, iv, plaintext)),
                            iv |-> IvString(iv),
                            algorithm |-> "AES-256-GCM",
                            cryptoVersion |-> "v1",
                            iterations |-> checked.count]]

\* decryptSpecimen(encrypted, {key})
decryptSpecimen(encrypted, key) ==
    IF ~encrypted.payload.present
    THEN ParseFailure(WolsEncryptionError("WOLS_DECRYPTION_ERROR",
                                          <<"Missing encrypted payload">>, "payload"))
    ELSE IF ~encrypted.iv.present
    THEN ParseFailure(WolsEncryptionError("WOLS_DECRYPTION_ERROR",
                                          <<"Missing initialization vector (IV)">>, "iv"))
    ELSE
    LET cryptoKey == IF key.kind = "string" THEN decryptDeriveKey(key.secret) ELSE key
    IN  IF ~encrypted.payload.decodable \/ ~encrypted.iv.decodable
        THEN ParseFailure(WolsEncryptionError("WOLS_DECRYPTION_ERROR",
                              <<"Decryption failed:", "atob: InvalidCharacterError">>, ""))
        ELSE IF ~AesGcmOpens(cryptoKey, encrypted.iv.bytes, encrypted.payload.bytes)
        THEN ParseFailure(WolsEncryptionError("WOLS_DECRYPTION_ERROR",
                              <<"Decryption failed:", "decrypt: OperationError">>, ""))
        ELSE parseSpecimen(encrypted.payload.bytes.plaintext)

\* encryption and decryption before any call
EncIdle ==
    [pc |-> "idle", specimen |-> Undefined, key |-> Password(""), iterations |-> Undefined,
     envelope |-> NoEnvelope, tampering |-> "none", decryptKey |-> Password(""),
     result |-> NoParse]

-----------------------------------------------------------------------------
(* Strings: conversion, search, splitting.                                 *)

\* n.toString() for an integer n >= 0
RECURSIVE DigitsOf(_)
DigitsOf(n) ==
    IF n < 10 THEN <<CharOf(48 + n)>> ELSE Append(DigitsOf(n \div 10), CharOf(48 + (n % 10)))

\* String(x)
ToChars(x) ==
    CASE x.k = "string" -> x.v
      [] x.k = "number" -> IF x.v < 0 THEN <<"-">> \o DigitsOf(0 - x.v) ELSE DigitsOf(x.v)
      [] x.k = "NaN" -> <<"N", "a", "N">>
      [] x.k = "null" -> <<"n", "u", "l", "l">>
      [] x.k = "undefined" -> <<"u", "n", "d", "e", "f", "i", "n", "e", "d">>
      [] x.k = "function" -> <<"f", "u", "n", "c", "t", "i", "o", "n", " ">> \o x.v \o <<"(", ")", " ", "{", " ", "[", "n", "a", "t", "i", "v", "e", " ", "c", "o", "d", "e", "]", " ", "}">>
      [] x.k = "object" -> <<"[", "o", "b", "j", "e", "c", "t", " ", "O", "b", "j", "e", "c", "t", "]">>
      [] x.k = "array" -> <<>>

\* a value counts as true in a condition
Truthy(x) ==
    CASE x.k = "string" -> x.v # <<>>
      [] x.k = "number" -> x.v # 0
      [] x.k \in {"NaN", "null", "undefined"} -> FALSE
      [] OTHER -> TRUE

\* s.indexOf(pat), counted from 1; 0 when pat does not occur
IndexOf(s, pat) ==
    LET at == {i \in 1..(Len(s) - Len(pat) + 1) : SubSeq(s, i, i + Len(pat) - 1) = pat}
    IN  IF at = {} THEN 0 ELSE CHOOSE i \in at : \A j \in at : i <= j

\* s.slice(n)
Drop(s, n) == SubSeq(s, n + 1, Len(s))

\* s.split(sep), sep one character
RECURSIVE Split(_, _)
Split(s, sep) ==
    LET i == IndexOf(s, <<sep>>)
    IN  IF i = 0 THEN <<s>> ELSE <<SubSeq(s, 1, i - 1)>> \o Split(Drop(s, i), sep)

\* parts.join(sep)
RECURSIVE Join(_, _)
Join(parts, sep) ==
    IF parts = <<>> THEN <<>>
    ELSE IF Len(parts) = 1 THEN parts[1]
    ELSE parts[1] \o sep \o Join(Tail(parts), sep)

\* parseInt(s, 10): an optional sign and the digits that follow it
parseInt(s) ==
    LET signed == s # <<>> /\ s[1] \in {"-", "+"}
        from == IF signed THEN 2 ELSE 1
        n == DigitRun(s, from)
    IN  IF n = 0 THEN NaN
        ELSE IF signed /\ s[1] = "-" THEN Num(0 - ParseInt(s, from, n))
        ELSE Num(ParseInt(s, from, n))

\* Math.floor(new Date(x).getTime() / 1000) for null and for a string of the
\* ISO 8601 pattern of utils/iso8601.ts (strings of other formats are not drawn)
UnixSeconds(x) ==
    IF x.k = "null" THEN Num(0)
    ELSE IF ~(x.k = "string" /\ isValidISO8601(x.v)) THEN NaN
    ELSE
    LET s == x.v
        m == ParseInt(s, 6, 2)
        y == ParseInt(s, 1, 4) - (IF m <= 2 THEN 1 ELSE 0)
        era == y \div 400
        yoe == y - era * 400
        doy == (153 * ((m + 9) % 12) + 2) \div 5 + ParseInt(s, 9, 2) - 1
        doe == yoe * 365 + yoe \div 4 - yoe \div 100 + doy
        days == era * 146097 + doe - 719468
        local == days * 86400 + ParseInt(s, 12, 2) * 3600 + ParseInt(s, 15, 2) * 60
                     + ParseInt(s, 18, 2)
        offset == IF s[Len(s)] = "Z" THEN 0
                  ELSE (IF s[Len(s) - 5] = "-" THEN 0 - 1 ELSE 1)
                           * (ParseInt(s, Len(s) - 4, 2) * 3600 + ParseInt(s, Len(s) - 1, 2) * 60)
    IN  Num(local - offset)

-----------------------------------------------------------------------------
(* Plain objects as lookup tables: a key the table does not own is looked   *)
(* up in Object.prototype.                                                 *)

\* Object.prototype[key], for the inherited names the inputs can spell
ObjectPrototype(key) ==
    IF key \in {<<"c", "o", "n", "s", "t", "r", "u", "c", "t", "o", "r">>} THEN NativeFunction(<<"O", "b", "j", "e", "c", "t">>)
    ELSE IF key \in {<<"t", "o", "S", "t", "r", "i", "n", "g">>, <<"v", "a", "l", "u", "e", "O", "f">>} THEN NativeFunction(key)
    ELSE Undefined

\* table[key]
Lookup(table, key) ==
    IF \E i \in 1..Len(table.v) : table.v[i][1] = key THEN Get(table, key)
    ELSE ObjectPrototype(key)

-----------------------------------------------------------------------------
(* URLSearchParams: a list of <<name, value>> pairs; its text is           *)
(* application/x-www-form-urlencoded.                                      *)

UpperLetters ==
    {"A", "B", "C", "D", "E", "F", "G", "H", "I", "J", "K", "L", "M",
     "N", "O", "P", "Q", "R", "S", "T", "U", "V", "W", "X", "Y", "Z"}

\* the characters the encoding leaves as they are
FormSafe == LowerAlnum \cup UpperLetters \cup {"*", "-", ".", "_"}

HexDigits == <<"0", "1", "2", "3", "4", "5", "6", "7", "8", "9", "A", "B", "C", "D", "E", "F">>

\* the value of a hexadecimal digit, -1 for another character
HexValue(c) ==
    IF c \in Digits THEN DigitValue(c)
    ELSE IF c \in {"A", "B", "C", "D", "E", "F"} THEN CharCode(c) - 55
    ELSE IF c \in {"a", "b", "c", "d", "e", "f"} THEN CharCode(c) - 87
    ELSE 0 - 1

FormEncodeChar(c) ==
    IF c \in FormSafe THEN <<c>>
    ELSE IF c = " " THEN <<"+">>
    ELSE <<"%", HexDigits[(CharCode(c) \div 16) + 1], HexDigits[(CharCode(c) % 16) + 1]>>

RECURSIVE FormEncode(_)
FormEncode(s) == IF s = <<>> THEN <<>> ELSE FormEncodeChar(Head(s)) \o FormEncode(Tail(s))

\* "+" is a space, "%" and two hexadecimal digits are the character of that code
RECURSIVE FormDecode(_)
FormDecode(s) ==
    IF s = <<>> THEN <<>>
    ELSE IF s[1] = "+" THEN <<" ">> \o FormDecode(Tail(s))
    ELSE IF s[1] = "%" /\ Len(s) >= 3 /\ HexValue(s[2]) >= 0 /\ HexValue(s[3]) >= 0
    THEN <<CharOf(16 * HexValue(s[2]) + HexValue(s[3]))>> \o FormDecode(Drop(s, 3))
    ELSE <<s[1]>> \o FormDecode(Tail(s))

\* params.set(name, value)
ParamsSet(params, name, value) ==
    IF \E i \in 1..Len(params) : params[i][1] = name
    THEN LET first == CHOOSE i \in 1..Len(params) :
                          params[i][1] = name /\ \A j \in 1..(i - 1) : params[j][1] # name
             kept == {i \in 1..Len(params) : params[i][1] # name \/ i = first}
             pick[n \in 0..Len(params)] ==
                 IF n = 0 THEN <<>>
                 ELSE IF n \in kept
                 THEN Append(pick[n - 1], IF n = first THEN <<name, ToChars(value)>> ELSE params[n])
                 ELSE pick[n - 1]
         IN  pick[Len(params)]
    ELSE Append(params, <<name, ToChars(value)>>)

\* params.toString()
ParamsToString(params) ==
    Join([i \in 1..Len(params) |-> FormEncode(params[i][1]) \o <<"=">> \o FormEncode(params[i][2])],
         <<"&">>)

\* name and value of one piece of a query
ParamOf(piece) ==
    LET i == IndexOf(piece, <<"=">>)
    IN  IF i = 0 THEN <<FormDecode(piece), <<>>>>
        ELSE <<FormDecode(SubSeq(piece, 1, i - 1)), FormDecode(Drop(piece, i))>>

\* new URLSearchParams(query)
ParamsParse(query) ==
    LET q == IF query # <<>> /\ query[1] = "?" THEN Tail(query) ELSE query
        pieces == SelectSeq(Split(q, "&"), LAMBDA piece : piece # <<>>)
    IN  [i \in 1..Len(pieces) |-> ParamOf(pieces[i])]

\* params.get(name)
ParamsGet(params, name) ==
    LET hits == SelectSeq(params, LAMBDA p : p[1] = name)
    IN  IF hits = <<>> THEN Null ELSE Str(hits[1][2])

-----------------------------------------------------------------------------
(* compact-url.ts.                                                         *)

\* the species codes the module starts with
BuiltinSpeciesCodes ==
    << <<<<"P", "O", "S", "T", "R">>, <<"P", "l", "e", "u", "r", "o", "t", "u", "s", " ", "o", "s", "t", "r", "e", "a", "t", "u", "s">>>>,
       <<<<"P", "C", "I", "T", "R", "I">>, <<"P", "l", "e", "u", "r", "o", "t", "u", "s", " ", "c", "i", "t", "r", "i", "n", "o", "p", "i", "l", "e", "a", "t", "u", "s">>>>,
       <<<<"P", "D", "J", "A", "R">>, <<"P", "l", "e", "u", "r", "o", "t", "u", "s", " ", "d", "j", "a", "m", "o", "r">>>>,
       <<<<"P", "E", "R", "Y", "N">>, <<"P", "l", "e", "u", "r", "o", "t", "u", "s", " ", "e", "r", "y", "n", "g", "i", "i">>>>,
       <<<<"H", "E", "R", "I", "N">>, <<"H", "e", "r", "i", "c", "i", "u", "m", " ", "e", "r", "i", "n", "a", "c", "e", "u", "s">>>>,
       <<<<"G", "L", "U", "C", "I">>, <<"G", "a", "n", "o", "d", "e", "r", "m", "a", " ", "l", "u", "c", "i", "d", "u", "m">>>>,
       <<<<"L", "P", "U", "D", "E">>, <<"L", "a", "e", "t", "i", "p", "o", "r", "u", "s", " ", "p", "u", "d", "e", "n", "s">>>>,
       <<<<"L", "L", "E", "N", "C">>, <<"L", "e", "n", "t", "i", "n", "u", "l", "a", " ", "e", "d", "o", "d", "e", "s">>>>,
       <<<<"A", "P", "O", "L", "Y">>, <<"A", "g", "r", "o", "c", "y", "b", "e", " ", "p", "o", "l", "y", "p", "h", "y", "l", "l", "a">>>>,
       <<<<"S", "T", "R", "U", "G">>, <<"S", "t", "r", "o", "p", "h", "a", "r", "i", "a", " ", "r", "u", "g", "o", "s", "o", "a", "n", "n", "u", "l", "a", "t", "a">>>> >>

\* SPECIES_CODES and SPECIES_TO_CODE once the module is loaded
InitialSpeciesCodes ==
    Obj([i \in 1..Len(BuiltinSpeciesCodes) |->
            <<BuiltinSpeciesCodes[i][1], Str(BuiltinSpeciesCodes[i][2])>>])
InitialSpeciesToCode ==
    Obj([i \in 1..Len(BuiltinSpeciesCodes) |->
            <<BuiltinSpeciesCodes[i][2], Str(BuiltinSpeciesCodes[i][1])>>])

getSpeciesFromCode(codes, code) == Lookup(codes, code)

getCodeFromSpecies(toCode, species) == Lookup(toCode, species)

\* registerSpeciesCode(code, species): the two tables afterwards
registerSpeciesCode(codes, toCode, code, species) ==
    LET oldSpecies == Lookup(codes, code)
        pruned == IF oldSpecies.k # "undefined" THEN Delete(toCode, ToChars(oldSpecies))
                  ELSE toCode
    IN  [codes |-> Put(codes, code, Str(species)),
         toCode |-> Put(pruned, species, Str(code))]

\* specimen.strain?.name and the like
OptionalMember(x, key) ==
    IF IsNullish(x) THEN Undefined
    ELSE IF x.k = "object" THEN Get(x, key)
    ELSE Undefined

\* params.set(name, value) when value !== undefined
SetDefined(params, name, value) ==
    IF value.k # "undefined" THEN ParamsSet(params, name, value) ELSE params

toCompactUrl(toCode, specimen) ==
    LET id == ToChars(Get(specimen, "id"))
        idWithoutPrefix == IF StartsWith(id, <<"w", "e", "m", "u", "s", "h", ":">>) THEN Drop(id, 7) ELSE id
        speciesCode == getCodeFromSpecies(toCode, ToChars(Get(specimen, "species")))
        created == Get(specimen, "created")
        p1 == ParamsSet(<<>>, <<"s">>,
                        IF speciesCode.k # "undefined" THEN speciesCode
                        ELSE Get(specimen, "species"))
        p2 == ParamsSet(p1, <<"t", "y">>, Get(specimen, "type"))
        p3 == SetDefined(p2, <<"s", "t">>, Get(specimen, "stage"))
        p4 == IF created.k # "undefined" THEN ParamsSet(p3, <<"t">>, UnixSeconds(created)) ELSE p3
        p5 == SetDefined(p4, <<"b">>, Get(specimen, "batch"))
        p6 == SetDefined(p5, <<"s", "n">>, OptionalMember(Get(specimen, "strain"), "name"))
        p7 == SetDefined(p6, <<"s", "g">>, OptionalMember(Get(specimen, "strain"), "generation"))
        queryString == ParamsToString(p7)
    IN  <<"w", "e", "m", "u", "s", "h", ":", "/", "/", "v", "1", "/">> \o idWithoutPrefix
            \o (IF queryString # <<>> THEN <<"?">> \o queryString ELSE <<>>)

InvalidUrl(message) == ParseFailure(WolsParseError("WOLS_INVALID_URL", <<message>>, ""))

\* result[key] = value when value !== null
SetNotNull(result, key, value) ==
    IF value.k # "null" THEN Put(result, key, value) ELSE result

parseCompactUrl(codes, text) ==
    IF ~StartsWith(text, <<"w", "e", "m", "u", "s", "h", ":", "/", "/">>) THEN InvalidUrl("URL must start with wemush://")
    ELSE
    LET parts == Split(Drop(text, 9), "?")
        pathPart == parts[1]
        queryPart == IF Len(parts) >= 2 THEN parts[2] ELSE <<>>
        pathSegments == Split(pathPart, "/")
        params == ParamsParse(queryPart)
        speciesParam == ParamsGet(params, <<"s">>)
        resolvedSpecies == getSpeciesFromCode(codes, speciesParam.v)
        timestampParam == ParamsGet(params, <<"t">>)
        strainNameParam == ParamsGet(params, <<"s", "n">>)
        strainGenParam == ParamsGet(params, <<"s", "g">>)
        r0 == Obj(<< <<"id", Str(<<"w", "e", "m", "u", "s", "h", ":">> \o pathSegments[2])>>,
                     <<"species", IF IsNullish(resolvedSpecies) THEN speciesParam
                                  ELSE resolvedSpecies>>,
                     <<"version", Str(IF pathSegments[1] = <<"v", "1">> THEN <<"1", ".", "1", ".", "0">> ELSE <<"1", ".", "0", ".", "0">>)>> >>)
        r1 == SetNotNull(r0, "type", ParamsGet(params, <<"t", "y">>))
        r2 == SetNotNull(r1, "stage", ParamsGet(params, <<"s", "t">>))
        r3 == IF timestampParam.k # "null" THEN Put(r2, "timestamp", parseInt(timestampParam.v))
              ELSE r2
        r4 == SetNotNull(r3, "batch", ParamsGet(params, <<"b">>))
    IN  IF pathPart = <<>> THEN InvalidUrl("Invalid compact URL format: missing path")
        ELSE IF Len(pathSegments) < 2 \/ pathSegments[2] = <<>>
        THEN InvalidUrl("Invalid compact URL format: missing specimen ID")
        ELSE IF speciesParam.k = "null"
        THEN InvalidUrl("Invalid compact URL format: missing species parameter")
        ELSE IF strainNameParam.k # "null"
        THEN ParseSuccess(Put(r4, "strain",
                              SetNotNull(Obj(<< <<"name", strainNameParam>> >>),
                                         "generation", strainGenParam)))
        ELSE ParseSuccess(r4)

-----------------------------------------------------------------------------
(* qr: the content a QR code carries.                                      *)

\* the QR module's own table from species to species code
QR_SPECIES_CODES == InitialSpeciesToCode

STAGE_CODES ==
    Obj(<< <<<<"I", "N", "O", "C", "U", "L", "A", "T", "I", "O", "N">>, Str(<<"I", "N">>)>>, <<<<"C", "O", "L", "O", "N", "I", "Z", "A", "T", "I", "O", "N">>, Str(<<"C", "O">>)>>,
           <<<<"F", "R", "U", "I", "T", "I", "N", "G">>, Str(<<"F", "R">>)>>, <<<<"H", "A", "R", "V", "E", "S", "T">>, Str(<<"H", "A">>)>> >>)

\* s.replace(pat, ''), pat a string: its first occurrence goes
RemoveFirst(s, pat) ==
    LET i == IndexOf(s, pat)
    IN  IF i = 0 THEN s ELSE SubSeq(s, 1, i - 1) \o Drop(s, i + Len(pat) - 1)

\* the QR module's toCompactUrl
qrToCompactUrl(specimen) ==
    LET cuidPart == RemoveFirst(ToChars(Get(specimen, "id")), <<"w", "e", "m", "u", "s", "h", ":">>)
        speciesCode == Lookup(QR_SPECIES_CODES, ToChars(Get(specimen, "species")))
        stage == Get(specimen, "stage")
        stageCode == IF Truthy(stage) THEN Lookup(STAGE_CODES, ToChars(stage)) ELSE Undefined
        created == Get(specimen, "created")
        p1 == IF Truthy(speciesCode) THEN ParamsSet(<<>>, <<"s">>, speciesCode) ELSE <<>>
        p2 == IF Truthy(stageCode) THEN ParamsSet(p1, <<"s", "t">>, stageCode) ELSE p1
        p3 == IF Truthy(created) THEN ParamsSet(p2, <<"t">>, UnixSeconds(created)) ELSE p2
        queryString == ParamsToString(p3)
    IN  <<"w", "e", "m", "u", "s", "h", ":", "/", "/", "v", "1", "/">> \o cuidPart
            \o (IF queryString # <<>> THEN <<"?">> \o queryString ELSE <<>>)

\* getQRContent(specimen, format): the text, a compact URL or a JSON document
getQRContent(specimen, format) ==
    IF format = "compact" THEN [chars |-> qrToCompactUrl(specimen), json |-> NoText]
    ELSE [chars |-> <<>>, json |-> serializeSpecimen(specimen)]

\* the compact-url module before any call
UrlIdle ==
    [pc |-> "idle", op |-> "none", specimen |-> Undefined, text |-> <<>>, json |-> NoText,
     result |-> NoParse]

-----------------------------------------------------------------------------
(* types.ts: the type aliases.                                             *)

\* s.toUpperCase(), for the ASCII letters
ToUpperCase(s) ==
    [i \in 1..Len(s) |->
        IF CharCode(s[i]) >= 97 /\ CharCode(s[i]) <= 122 THEN CharOf(CharCode(s[i]) - 32)
        ELSE s[i]]

\* the Map as the module builds it: alias and type, in the order of insertion
InitialTypeAliases ==
    << <<<<"L", "I", "Q", "U", "I", "D", "_", "C", "U", "L", "T", "U", "R", "E">>, <<"C", "U", "L", "T", "U", "R", "E">>>>, <<<<"L", "C">>, <<"C", "U", "L", "T", "U", "R", "E">>>>, <<<<"A", "G", "A", "R">>, <<"C", "U", "L", "T", "U", "R", "E">>>>,
       <<<<"P", "E", "T", "R", "I">>, <<"C", "U", "L", "T", "U", "R", "E">>>>, <<<<"S", "L", "A", "N", "T">>, <<"C", "U", "L", "T", "U", "R", "E">>>>, <<<<"C", "U", "L", "T", "U", "R", "E", "_", "P", "L", "A", "T", "E">>, <<"C", "U", "L", "T", "U", "R", "E">>>>,
       <<<<"G", "R", "A", "I", "N", "_", "S", "P", "A", "W", "N">>, <<"S", "P", "A", "W", "N">>>>, <<<<"S", "A", "W", "D", "U", "S", "T", "_", "S", "P", "A", "W", "N">>, <<"S", "P", "A", "W", "N">>>>,
       <<<<"P", "L", "U", "G", "_", "S", "P", "A", "W", "N">>, <<"S", "P", "A", "W", "N">>>>, <<<<"D", "O", "W", "E", "L">>, <<"S", "P", "A", "W", "N">>>>,
       <<<<"B", "L", "O", "C", "K">>, <<"S", "U", "B", "S", "T", "R", "A", "T", "E">>>>, <<<<"B", "A", "G">>, <<"S", "U", "B", "S", "T", "R", "A", "T", "E">>>>, <<<<"B", "E", "D">>, <<"S", "U", "B", "S", "T", "R", "A", "T", "E">>>>,
       <<<<"L", "O", "G">>, <<"S", "U", "B", "S", "T", "R", "A", "T", "E">>>>, <<<<"B", "U", "C", "K", "E", "T">>, <<"S", "U", "B", "S", "T", "R", "A", "T", "E">>>>,
       <<<<"F", "L", "U", "S", "H">>, <<"F", "R", "U", "I", "T", "I", "N", "G">>>>, <<<<"P", "I", "N", "N", "I", "N", "G">>, <<"F", "R", "U", "I", "T", "I", "N", "G">>>>, <<<<"P", "R", "I", "M", "O", "R", "D", "I", "A">>, <<"F", "R", "U", "I", "T", "I", "N", "G">>>>,
       <<<<"F", "R", "U", "I", "T">>, <<"F", "R", "U", "I", "T", "I", "N", "G">>>>, <<<<"F", "I", "R", "S", "T", "_", "F", "L", "U", "S", "H">>, <<"F", "R", "U", "I", "T", "I", "N", "G">>>>,
       <<<<"F", "R", "E", "S", "H">>, <<"H", "A", "R", "V", "E", "S", "T">>>>, <<<<"D", "R", "I", "E", "D">>, <<"H", "A", "R", "V", "E", "S", "T">>>>, <<<<"P", "R", "O", "C", "E", "S", "S", "E", "D">>, <<"H", "A", "R", "V", "E", "S", "T">>>>,
       <<<<"E", "X", "T", "R", "A", "C", "T">>, <<"H", "A", "R", "V", "E", "S", "T">>>> >>

\* registry.set(key, value): an existing key keeps its place
MapSet(registry, key, value) ==
    IF \E i \in 1..Len(registry) : registry[i][1] = key
    THEN [i \in 1..Len(registry) |-> IF registry[i][1] = key THEN <<key, value>> ELSE registry[i]]
    ELSE Append(registry, <<key, value>>)

\* registry.get(key)
MapGet(registry, key) ==
    IF \E i \in 1..Len(registry) : registry[i][1] = key
    THEN Str(registry[CHOOSE i \in 1..Len(registry) : registry[i][1] = key][2])
    ELSE Undefined

registerTypeAlias(registry, alias, wolsType) == MapSet(registry, ToUpperCase(alias), wolsType)

\* resolveTypeAlias without its first test: the registry is asked first
resolveTypeAliasRegistryFirst(registry, typeOrAlias) ==
    LET upper == ToUpperCase(typeOrAlias)
        resolved == MapGet(registry, upper)
    IN  IF ~IsNullish(resolved) THEN resolved.v
        ELSE IF Includes(SPECIMEN_TYPES, upper) THEN upper
        ELSE typeOrAlias

resolveTypeAlias(registry, typeOrAlias) ==
    LET upper == ToUpperCase(typeOrAlias)
        resolved == MapGet(registry, upper)
    IN  IF Includes(SPECIMEN_TYPES, upper) THEN upper
        ELSE IF ~IsNullish(resolved) THEN resolved.v
        ELSE typeOrAlias

registerPlatformType(registry, platformType, wolsType) ==
    registerTypeAlias(registry, platformType, wolsType)

isStrain(value) ==
    /\ TypeOf(value) = "object"
    /\ \E i \in 1..Len(value.v) : value.v[i][1] = "name"
    /\ TypeOf(Get(value, "name")) = "string"

-----------------------------------------------------------------------------
(* utils/cuid.ts: the ids.                                                 *)

ALPHABET == <<"0", "1", "2", "3", "4", "5", "6", "7", "8", "9", "a", "b", "c", "d", "e", "f", "g", "h", "i", "j", "k", "l", "m", "n", "o", "p", "q", "r", "s", "t", "u", "v", "w", "x", "y", "z">>
DEFAULT_LENGTH == 24
\* the counter starts again at this value: 36^4
CounterModulus == 1679616

\* n.toString(36) for an integer n >= 0
RECURSIVE ToString36(_)
ToString36(n) ==
    IF n < 36 THEN <<ALPHABET[n + 1]>>
    ELSE Append(ToString36(n \div 36), ALPHABET[(n % 36) + 1])

\* s.padStart(4, '0')
PadStart4(s) == IF Len(s) >= 4 THEN s ELSE [i \in 1..(4 - Len(s)) |-> "0"] \o s

\* s.slice(0, n)
Take(s, n) == SubSeq(s, 1, IF n < Len(s) THEN n ELSE Len(s))

\* getRandomBytes(length): the first bytes of what the generator gives
getRandomBytes(env, length) == SubSeq(env.bytes, 1, length)

toBase36(bytes) == [i \in 1..Len(bytes) |-> ALPHABET[(bytes[i] % 36) + 1]]

\* Date.now().toString(36), Date.now() being now.high * 36^4 + now.low
getTimestamp(env) ==
    IF env.now.high = 0 THEN ToString36(env.now.low)
    ELSE ToString36(env.now.high) \o PadStart4(ToString36(env.now.low))

\* getCounter: the new value of the counter and the text returned
getCounter(count) ==
    LET next == (count + 1) % CounterModulus
    IN  [counter |-> next, text |-> PadStart4(ToString36(next))]

\* getFingerprint: env.pid is 0 where there is no process object, env.hrtime
\* negative where process.hrtime is missing
getFingerprint(env) ==
    LET ofProcess ==
            IF env.pid # 0
            THEN ToString36(env.pid) \o (IF env.hrtime >= 0 THEN ToString36(env.hrtime) ELSE <<>>)
            ELSE <<>>
        ofNavigator ==
            IF env.navigator
            THEN ToString36(env.userAgentLength) \o ToString36(env.languageLength)
            ELSE <<>>
        parts == ofProcess \o ofNavigator
    IN  Take(IF parts = <<>> THEN toBase36(getRandomBytes(env, 4)) ELSE parts, 4)

\* createId(): the new value of the counter and the id
createId(env, count) ==
    LET timestamp == getTimestamp(env)
        c == getCounter(count)
        fingerprint == getFingerprint(env)
        fixedLength == Len(timestamp) + Len(c.text) + Len(fingerprint)
        randomLength == IF DEFAULT_LENGTH - fixedLength > 0 THEN DEFAULT_LENGTH - fixedLength
                        ELSE 0
        random == toBase36(getRandomBytes(env, randomLength))
    IN  [counter |-> c.counter,
         id |-> Take(random \o timestamp \o c.text \o fingerprint, DEFAULT_LENGTH)]

createSpecimenId(env, count) ==
    LET made == createId(env, count)
    IN  [counter |-> made.counter, id |-> <<"w", "e", "m", "u", "s", "h", ":">> \o made.id]

-----------------------------------------------------------------------------
(* specimen.ts: createSpecimen.                                            *)

expandStrain(strain) ==
    IF strain.k = "undefined" THEN Undefined
    ELSE IF TypeOf(strain) = "string" THEN Obj(<< <<"name", strain>> >>)
    ELSE IF isStrain(strain) THEN strain
    ELSE Undefined

\* what a createSpecimen call comes to: a specimen returned or an Error thrown
Created(specimen) == [thrown |-> FALSE, specimen |-> specimen, message |-> <<>>]
ThrownError(message) == [thrown |-> TRUE, specimen |-> Undefined, message |-> message]

\* the createSpecimen call before it is made
CreIdle == [pc |-> "idle", input |-> Undefined, result |-> Created(Undefined)]

-----------------------------------------------------------------------------
(* Each module at rest.                                                    *)

ValidationIdle == val = ValIdle
ParserIdle == par = ParIdle
CryptoIdle == enc = EncIdle
CompactUrlIdle ==
    /\ SPECIES_CODES = InitialSpeciesCodes
    /\ SPECIES_TO_CODE = InitialSpeciesToCode
    /\ url = UrlIdle
SpecimenIdle ==
    /\ TYPE_ALIAS_REGISTRY = InitialTypeAliases
    /\ counter = 0
    /\ cre = CreIdle
CompareIdle == cmp = [pc |-> "idle", a |-> <<>>, b |-> <<>>, result |-> 0]
QRIdle ==
    /\ qrLib = "null"
    /\ qrLibLoadAttempted = FALSE
    /\ installed = TRUE
    /\ imports = 0
    /\ calls = <<>>

-----------------------------------------------------------------------------
(* utils/migration: version comparison.                                    *)

WOLS_VERSION == <<"1", ".", "2", ".", "0">>

\* /^(\d+)\.(\d+)\.(\d+)/ : <<major, minor, patch>>, or <<>> for null
parseVersion(version) ==
    LET n1 == DigitRun(version, 1)
        d1 == n1 + 1
        n2 == DigitRun(version, d1 + 1)
        d2 == d1 + n2 + 1
        n3 == DigitRun(version, d2 + 1)
    IN  IF /\ n1 > 0
           /\ d1 <= Len(version) /\ version[d1] = "."
           /\ n2 > 0
           /\ d2 <= Len(version) /\ version[d2] = "."
           /\ n3 > 0
        THEN <<ParseInt(version, 1, n1),
               ParseInt(version, d1 + 1, n2),
               ParseInt(version, d2 + 1, n3)>>
        ELSE <<>>

\* compareVersions without its numeric branch: the strings are compared
compareVersionsAsStrings(a, b) ==
    IF StrLess(a, b) THEN -1
    ELSE IF StrLess(b, a) THEN 1
    ELSE 0

compareVersions(a, b) ==
    LET parsedA == parseVersion(a)
        parsedB == parseVersion(b)
    IN  IF parsedA = <<>> \/ parsedB = <<>>
        THEN IF StrLess(a, b) THEN -1
             ELSE IF StrLess(b, a) THEN 1
             ELSE 0
        ELSE IF parsedA[1] # parsedB[1]
             THEN (IF parsedA[1] < parsedB[1] THEN -1 ELSE 1)
        ELSE IF parsedA[2] # parsedB[2]
             THEN (IF parsedA[2] < parsedB[2] THEN -1 ELSE 1)
        ELSE IF parsedA[3] # parsedB[3]
             THEN (IF parsedA[3] < parsedB[3] THEN -1 ELSE 1)
        ELSE 0

isOutdated(version) == compareVersions(version, WOLS_VERSION) < 0

isNewer(version) == compareVersions(version, WOLS_VERSION) > 0

-----------------------------------------------------------------------------
(* utils/migration: the registry and the specimens it is applied to.       *)

V100 == <<"1", ".", "0", ".", "0">>
V100rc == <<"1", ".", "0", ".", "0", "-", "r", "c">>
V110 == <<"1", ".", "1", ".", "0">>
V200 == <<"2", ".", "0", ".", "0">>

\* versions of the specimens handed to migrate() and canMigrate()
SpecimenVersions == {V100, V100rc, V110, WOLS_VERSION, V200}
\* the `from` and `to` arguments of registerMigration()
FromVersions == {V100, V100rc, V110, WOLS_VERSION}
ToVersions == {V100, V110, WOLS_VERSION, V200}
\* the caller's handlers: "stamp" writes the migration's `to` into `version`,
\* "keep" leaves `version` alone; both leave their mark on the record's data
HandlerKinds == {"stamp", "keep"}

\* MigrationDefinition
MigrationDefinition == [from : FromVersions, to : ToVersions, handler : HandlerKinds]

\* a Specimen as the migration engine sees it: its version and the rest of its
\* data, which here records the handlers that rewrote it, in order
MigSpecimen(version) == [version |-> version, data |-> <<>>]

\* migration.handler(current)
ApplyHandler(m, s) ==
    [version |-> IF m.handler = "stamp" THEN m.to ELSE s.version,
     data |-> Append(s.data, <<m.from, m.to, m.handler>>)]

\* Array.prototype.sort on a list whose last element is the one just pushed:
\* stable, by compareVersions of the `from` fields
RECURSIVE InsertStable(_, _)
InsertStable(sorted, e) ==
    IF sorted = <<>> THEN <<e>>
    ELSE IF compareVersions(sorted[Len(sorted)].from, e.from) > 0
         THEN Append(InsertStable(SubSeq(sorted, 1, Len(sorted) - 1), e),
                     sorted[Len(sorted)])
         ELSE Append(sorted, e)

RECURSIVE SortByFrom(_)
SortByFrom(list) ==
    IF list = <<>> THEN <<>>
    ELSE InsertStable(SortByFrom(SubSeq(list, 1, Len(list) - 1)), list[Len(list)])

\* registerMigration(from, to, handler): push, then sort
registerMigration(registry, m) == SortByFrom(Append(registry, m))

\* MIGRATION_REGISTRY.find(m => m.from === currentVersion), scanning from
\* index i: the index of the first match, 0 for undefined
RECURSIVE FindFrom(_, _, _)
FindFrom(registry, currentVersion, i) ==
    IF i > Len(registry) THEN 0
    ELSE IF registry[i].from = currentVersion THEN i
    ELSE FindFrom(registry, currentVersion, i + 1)

\* find() matching versions that compare equal instead of identical strings
FindMigrationByOrder(registry, currentVersion) ==
    LET matches == {i \in 1..Len(registry) :
                        compareVersions(registry[i].from, currentVersion) = 0}
    IN  IF matches = {} THEN 0
        ELSE CHOOSE i \in matches : \A j \in matches : i <= j

FindMigration(registry, currentVersion) == FindFrom(registry, currentVersion, 1)

(* The outcome of a call. *)
NoSpecimen == [version |-> <<>>, data |-> <<>>]
NoMessage == [text |-> "", from |-> <<>>, to |-> <<>>]
NoResult == [kind |-> "none", specimen |-> NoSpecimen, bool |-> FALSE, message |-> NoMessage]
Returned(s) == [NoResult EXCEPT !.kind = "return", !.specimen = s]
Answered(b) == [NoResult EXCEPT !.kind = "bool", !.bool = b]
\* new Error(`No migration path from version ${currentVersion} to ${WOLS_VERSION}. ...`)
Thrown(currentVersion) ==
    [NoResult EXCEPT !.kind = "throw",
                     !.message = [text |-> "No migration path",
                                  from |-> currentVersion, to |-> WOLS_VERSION]]

\* migrate() without its early return for a record that is not outdated
migrateEnterNoCheck(s) ==
    [current |-> s, currentVersion |-> s.version, result |-> NoResult]

\* migrate(): the statements before the loop
migrateEnter(s) ==
    IF ~isOutdated(s.version)
    THEN [current |-> s, currentVersion |-> s.version, result |-> Returned(s)]
    ELSE [current |-> s, currentVersion |-> s.version, result |-> NoResult]

\* migrate() returning what the last handler returned, its version as written
migrateStepKeepVersion(registry, st) ==
    IF compareVersions(st.currentVersion, WOLS_VERSION) < 0
    THEN LET i == FindMigration(registry, st.currentVersion)
         IN  IF i = 0
             THEN [st EXCEPT !.result = Thrown(st.currentVersion)]
             ELSE [st EXCEPT !.current = ApplyHandler(registry[i], st.current),
                             !.currentVersion = registry[i].to]
    ELSE [st EXCEPT !.result = Returned(st.current)]

\* canMigrate() answering true as soon as one migration has been followed
canMigrateStepOptimistic(registry, st) ==
    IF compareVersions(st.currentVersion, WOLS_VERSION) < 0
    THEN LET i == FindMigration(registry, st.currentVersion)
         IN  IF i = 0
             THEN [st EXCEPT !.result = Answered(st.currentVersion # st.current.version)]
             ELSE [st EXCEPT !.currentVersion = registry[i].to]
    ELSE [st EXCEPT !.result = Answered(TRUE)]

\* migrate(): one evaluation of the loop condition and, if it holds, of the loop
\* body; when the loop is left, the return statement
migrateStep(registry, st) ==
    IF compareVersions(st.currentVersion, WOLS_VERSION) < 0
    THEN LET i == FindMigration(registry, st.currentVersion)
         IN  IF i = 0
             THEN [st EXCEPT !.result = Thrown(st.currentVersion)]
             ELSE [st EXCEPT !.current = ApplyHandler(registry[i], st.current),
                             !.currentVersion = registry[i].to]
    ELSE [st EXCEPT !.result =
              Returned([st.current EXCEPT !.version = WOLS_VERSION])]

\* canMigrate(): the statements before the loop
canMigrateEnter(s) ==
    IF ~isOutdated(s.version)
    THEN [current |-> s, currentVersion |-> s.version, result |-> Answered(FALSE)]
    ELSE [current |-> s, currentVersion |-> s.version, result |-> NoResult]

\* canMigrate(): one turn of its loop, or the return after it
canMigrateStep(registry, st) ==
    IF compareVersions(st.currentVersion, WOLS_VERSION) < 0
    THEN LET i == FindMigration(registry, st.currentVersion)
         IN  IF i = 0
             THEN [st EXCEPT !.result = Answered(FALSE)]
             ELSE [st EXCEPT !.currentVersion = registry[i].to]
    ELSE [st EXCEPT !.result = Answered(TRUE)]

-----------------------------------------------------------------------------
(* The migration engine as a state machine: registrations, and one call of *)
(* migrate() or canMigrate() at a time, its loop taken turn by turn.       *)

Idle == [pc |-> "idle", op |-> "none", specimen |-> NoSpecimen, hops |-> 0,
         current |-> NoSpecimen, currentVersion |-> <<>>, result |-> NoResult]

MigrationIdle == MIGRATION_REGISTRY = <<>> /\ mig = Idle

InitMigration ==
    /\ MigrationIdle
    /\ ValidationIdle /\ ParserIdle /\ CryptoIdle /\ CompactUrlIdle /\ SpecimenIdle
    /\ CompareIdle /\ QRIdle

RegisterMigration(m) ==
    /\ mig.pc = "idle"
    /\ Len(MIGRATION_REGISTRY) < MaxRegistry
    /\ MIGRATION_REGISTRY' = registerMigration(MIGRATION_REGISTRY, m)
    /\ UNCHANGED <<mig, otherThanMigration>>

ClearMigrations ==
    /\ mig.pc = "idle"
    /\ MIGRATION_REGISTRY' = <<>>
    /\ UNCHANGED <<mig, otherThanMigration>>

Entered(op, s, st) ==
    [pc |-> IF st.result.kind = "none" THEN "loop" ELSE "done",
     op |-> op, specimen |-> s, hops |-> 0,
     current |-> st.current, currentVersion |-> st.currentVersion,
     result |-> st.result]

\* a turn of the loop: the turns are counted, and the handlers' marks kept, up
\* to MaxWalk; a walk that goes on after that goes on from version to version
Stepped(st) ==
    [mig EXCEPT !.pc = IF st.result.kind = "none" THEN "loop" ELSE "done",
                !.hops = IF st.result.kind = "none" /\ @ < MaxWalk THEN @ + 1 ELSE @,
                !.current = IF st.result.kind = "none" /\ mig.hops >= MaxWalk
                            THEN @ ELSE st.current,
                !.currentVersion = st.currentVersion,
                !.result = st.result]

LoopState == [current |-> mig.current, currentVersion |-> mig.currentVersion,
              result |-> mig.result]

MigrateCall(s) ==
    /\ mig.pc = "idle"
    /\ mig' = Entered("migrate", s, migrateEnter(s))
    /\ UNCHANGED <<MIGRATION_REGISTRY, otherThanMigration>>

MigrateLoop ==
    /\ mig.pc = "loop" /\ mig.op = "migrate"
    /\ \E st \in {migrateStep(MIGRATION_REGISTRY, LoopState)} : mig' = Stepped(st)
    /\ UNCHANGED <<MIGRATION_REGISTRY, otherThanMigration>>

CanMigrateCall(s) ==
    /\ mig.pc = "idle"
    /\ mig' = Entered("canMigrate", s, canMigrateEnter(s))
    /\ UNCHANGED <<MIGRATION_REGISTRY, otherThanMigration>>

CanMigrateLoop ==
    /\ mig.pc = "loop" /\ mig.op = "canMigrate"
    /\ \E st \in {canMigrateStep(MIGRATION_REGISTRY, LoopState)} : mig' = Stepped(st)
    /\ UNCHANGED <<MIGRATION_REGISTRY, otherThanMigration>>

\* the caller takes the result; the engine is ready for the next call
MigrationReturn ==
    /\ mig.pc = "done"
    /\ mig' = Idle
    /\ UNCHANGED <<MIGRATION_REGISTRY, otherThanMigration>>

NextMigration ==
    \/ \E m \in MigrationDefinition : RegisterMigration(m)
    \/ ClearMigrations
    \/ \E v \in SpecimenVersions : MigrateCall(MigSpecimen(v))
    \/ MigrateLoop
    \/ \E v \in SpecimenVersions : CanMigrateCall(MigSpecimen(v))
    \/ CanMigrateLoop
    \/ MigrationReturn

Spec == InitMigration /\ [][NextMigration]_vars

\* the migrations registered before the calls that are followed to their end
WalkDefinitions ==
    {d \in MigrationDefinition :
        /\ d.handler = "stamp"
        /\ d.from \in {V100, V110} /\ d.to \in {V100, V110, WOLS_VERSION}
        /\ d.from # d.to}

\* the registries that up to n registrations of these leave behind
RECURSIVE RegistriesOf(_)
RegistriesOf(n) ==
    IF n = 0 THEN {<<>>}
    ELSE LET shorter == RegistriesOf(n - 1)
         IN  shorter \cup {registerMigration(r, m) :
                               r \in shorter,
                               m \in WalkDefinitions}

InitWalk ==
    /\ MIGRATION_REGISTRY \in RegistriesOf(MaxRegistry)
    /\ mig = Idle
    /\ ValidationIdle /\ ParserIdle /\ CryptoIdle /\ CompactUrlIdle /\ SpecimenIdle
    /\ CompareIdle /\ QRIdle

NextWalk ==
    \/ \E v \in SpecimenVersions : MigrateCall(MigSpecimen(v))
    \/ MigrateLoop
    \/ \E v \in SpecimenVersions : CanMigrateCall(MigSpecimen(v))
    \/ CanMigrateLoop

\* the calls on a registry that is already filled. A call that has entered
\* its loop runs on: the loop is synchronous, and nothing else runs until it
\* is left
SpecWalk ==
    InitWalk /\ [][NextWalk]_vars /\ WF_vars(MigrateLoop) /\ WF_vars(CanMigrateLoop)

-----------------------------------------------------------------------------
(* What the claims about the migration engine speak of.                    *)

\* index i is the migration the walk takes at version v: the first one, in
\* registry order, whose `from` is exactly v
TakenAt(registry, v, i) ==
    /\ i \in 1..Len(registry)
    /\ registry[i].from = v
    /\ \A j \in 1..(i - 1) : registry[j].from # v

\* candidate chains: sequences of registry indices
Chains(registry) ==
    UNION {[1..n -> 1..Len(registry)] : n \in 1..Len(registry)}

\* c is a walk from version v: it starts with the migration taken at v, and
\* every further migration is the one taken at the previous one's `to`,
\* which is still older than WOLS_VERSION
IsWalk(registry, c, v) ==
    /\ TakenAt(registry, v, c[1])
    /\ \A k \in 1..(Len(c) - 1) :
          /\ TakenAt(registry, registry[c[k]].to, c[k + 1])
          /\ isOutdated(registry[c[k]].to)
    /\ isOutdated(v)

WalkEnd(registry, c) == registry[c[Len(c)]].to

\* the marks the handlers of chain c leave, in chain order
ChainMarks(registry, c) ==
    [k \in 1..Len(c) |->
        <<registry[c[k]].from, registry[c[k]].to, registry[c[k]].handler>>]

\* the versions at which a walk from v0 is stuck: older than WOLS_VERSION,
\* reached by the walk, and the `from` of no registered migration
StuckVersions(registry, v0) ==
    {v \in {v0} \cup {WalkEnd(registry, c) :
                         c \in {d \in Chains(registry) : IsWalk(registry, d, v0)}} :
        /\ isOutdated(v)
        /\ \A i \in 1..Len(registry) : registry[i].from # v}

MigrateDone == mig.pc = "done" /\ mig.op = "migrate"
CanMigrateDone == mig.pc = "done" /\ mig.op = "canMigrate"

\* C1: when the walk from an outdated specimen's version reaches a version that
\* is no longer older than WOLS_VERSION, migrate returns the specimen with the
\* marks of the walk's handlers, in chain order, each once, and with version
\* WOLS_VERSION whatever the handlers wrote.
C1_MigrateAppliesChain ==
    MigrateDone =>
        \A c \in Chains(MIGRATION_REGISTRY) :
            (/\ IsWalk(MIGRATION_REGISTRY, c, mig.specimen.version)
             /\ ~isOutdated(WalkEnd(MIGRATION_REGISTRY, c)))
            => /\ mig.result.kind = "return"
               /\ mig.result.specimen.version = WOLS_VERSION
               /\ mig.result.specimen.data =
                      mig.specimen.data \o ChainMarks(MIGRATION_REGISTRY, c)
               /\ \A k, l \in 1..Len(c) : c[k] = c[l] => k = l

\* a two-step migration whose last handler left the version alone
C1_Witness ==
    /\ MigrateDone
    /\ mig.result.kind = "return"
    /\ Len(mig.result.specimen.data) = 2
    /\ mig.result.specimen.data[2][3] = "keep"
    /\ mig.result.specimen.version = WOLS_VERSION

\* C2: when the walk from an outdated specimen is stuck at a version v,
\* canMigrate returns false and migrate throws "No migration path", naming v
\* and WOLS_VERSION, and returns no specimen.
C2_StuckWalkFails ==
    mig.pc = "done" =>
    \A v \in StuckVersions(MIGRATION_REGISTRY, mig.specimen.version) :
        /\ MigrateDone =>
              /\ mig.result.kind = "throw"
              /\ mig.result.message.text = "No migration path"
              /\ mig.result.message.from = v
              /\ mig.result.message.to = WOLS_VERSION
              /\ mig.result.specimen = NoSpecimen
        /\ CanMigrateDone => mig.result = Answered(FALSE)

\* migrate threw after following one migration: the message names the version
\* the walk is stuck at, not the specimen's own
C2_Witness ==
    /\ MigrateDone
    /\ mig.result.kind = "throw"
    /\ mig.result.message.from # mig.specimen.version
    /\ mig.result.message.from \in StuckVersions(MIGRATION_REGISTRY, mig.specimen.version)

\* C3: for a specimen at or ahead of WOLS_VERSION, migrate returns the input
\* unchanged without running a handler, and canMigrate returns false.
C3_CurrentOrNewerUntouched ==
    (mig.pc = "done" /\ ~isOutdated(mig.specimen.version)) =>
        /\ MigrateDone => mig.result = Returned(mig.specimen)
        /\ CanMigrateDone => mig.result = Answered(FALSE)
        /\ mig.hops = 0

\* a newer-than-current specimen, with a migration registered from a version
\* that is not outdated
C3_Witness ==
    /\ MigrateDone
    /\ isNewer(mig.specimen.version)
    /\ \E i \in 1..Len(MIGRATION_REGISTRY) : ~isOutdated(MIGRATION_REGISTRY[i].from)
    /\ mig.result.kind = "return"

(* C4: the same collection of migrations, registered in another order. *)

\* the registry after registering the migrations of `list`, in that order
RECURSIVE RegisterAll(_)
RegisterAll(list) ==
    IF list = <<>> THEN <<>>
    ELSE registerMigration(RegisterAll(SubSeq(list, 1, Len(list) - 1)), list[Len(list)])

\* every order of a list
Orders(list) ==
    {[i \in 1..Len(list) |-> list[p[i]]] :
        p \in {q \in [1..Len(list) -> 1..Len(list)] :
                  \A i, j \in 1..Len(list) : q[i] = q[j] => i = j}}

Diverged == [NoResult EXCEPT !.kind = "diverged"]

\* a whole call, followed for at most `fuel` turns of its loop
RECURSIVE RunLoop(_, _, _, _)
RunLoop(op, registry, st, fuel) ==
    IF st.result.kind # "none" THEN st.result
    ELSE IF fuel = 0 THEN Diverged
    ELSE RunLoop(op, registry,
                 IF op = "migrate" THEN migrateStep(registry, st)
                                   ELSE canMigrateStep(registry, st),
                 fuel - 1)

Outcome(op, registry, s) ==
    RunLoop(op, registry,
            IF op = "migrate" THEN migrateEnter(s) ELSE canMigrateEnter(s),
            MaxWalk + 1)

DistinctFroms(registry) ==
    \A i, j \in 1..Len(registry) : registry[i].from = registry[j].from => i = j

\* C4 as stated: whatever the order in which the registry's migrations were
\* registered, a call has the outcome it has now.
C4_InsertionOrderNeverMatters ==
    mig.pc = "done" =>
        \A list \in Orders(MIGRATION_REGISTRY) :
            Outcome(mig.op, RegisterAll(list), mig.specimen) = mig.result

\* C4 as amended: the same, for migrations with pairwise distinct `from` versions.
C4_InsertionOrderDistinctFroms ==
    (mig.pc = "done" /\ DistinctFroms(MIGRATION_REGISTRY)) =>
        \A list \in Orders(MIGRATION_REGISTRY) :
            Outcome(mig.op, RegisterAll(list), mig.specimen) = mig.result

\* a two-step migration over a registry that another order of registration
\* would have had to sort
C4_Witness ==
    /\ MigrateDone
    /\ Len(MIGRATION_REGISTRY) = 2
    /\ DistinctFroms(MIGRATION_REGISTRY)
    /\ mig.result.kind = "return"
    /\ Len(mig.result.specimen.data) = 2

-----------------------------------------------------------------------------
(* compareVersions() on its own: two version strings in, a sign out.        *)

VersionStrings ==
    {<<"1", ".", "0", ".", "0">>, <<"1", ".", "2", ".", "0">>, <<"1", ".", "1", "0", ".", "0">>, <<"1", ".", "9", ".", "0">>, <<"2", ".", "0", ".", "0">>, <<"9", ".", "0", ".", "0">>, <<"1", "0", ".", "0", ".", "0">>,
     <<"0", "1", ".", "2", ".", "0">>, <<"1", ".", "2", ".", "0", "-", "b", "e", "t", "a">>, <<"1", ".", "2">>, <<"1", ".", "x", ".", "0">>, <<"v", "1", ".", "2", ".", "0">>, <<>>, <<"l", "a", "t", "e", "s", "t">>}

InitCompare ==
    /\ MigrationIdle /\ ValidationIdle /\ ParserIdle /\ CryptoIdle /\ CompactUrlIdle
    /\ SpecimenIdle /\ QRIdle
    /\ \E a \in VersionStrings, b \in VersionStrings :
           cmp = [pc |-> "idle", a |-> a, b |-> b, result |-> 0]

CompareVersions ==
    /\ cmp.pc = "idle"
    /\ cmp' = [cmp EXCEPT !.pc = "done", !.result = compareVersions(cmp.a, cmp.b)]
    /\ UNCHANGED otherThanCompare

NextCompare == CompareVersions

SpecCompare == InitCompare /\ [][NextCompare]_vars

-----------------------------------------------------------------------------
(* Claim C24.                                                              *)

\* the string starts with a major.minor.patch triple of digit runs
WellFormed(version) == parseVersion(version) # <<>>

\* the sign of the numeric comparison of two triples, the first number first
NumericSign(x, y) ==
    IF x = y THEN 0
    ELSE LET i == CHOOSE j \in 1..3 : x[j] # y[j] /\ \A k \in 1..(j - 1) : x[k] = y[k]
         IN  IF x[i] < y[i] THEN -1 ELSE 1

\* the sign of the lexicographic comparison of two strings by code unit
LexicographicSign(a, b) ==
    IF a = b THEN 0
    ELSE IF \E n \in 1..Len(b) : SubSeq(b, 1, n - 1) = a THEN -1
    ELSE IF \E n \in 1..Len(a) : SubSeq(a, 1, n - 1) = b THEN 1
    ELSE LET i == CHOOSE j \in 1..Len(a) :
                      /\ j <= Len(b) /\ a[j] # b[j]
                      /\ \A k \in 1..(j - 1) : a[k] = b[k]
         IN  IF CharCode(a[i]) < CharCode(b[i]) THEN -1 ELSE 1

\* C24: compareVersions answers -1, 0 or 1; for two versions that start with
\* a major.minor.patch triple the answer is the sign of the numeric
\* comparison of major, then minor, then patch (10.0.0 is newer than 9.0.0,
\* and a version equals itself); when either string has no such triple the
\* answer is the sign of the lexicographic comparison of the two strings.
C24_NumericElseLexicographic ==
    cmp.pc = "done" =>
        /\ cmp.result \in {-1, 0, 1}
        /\ (WellFormed(cmp.a) /\ WellFormed(cmp.b)) =>
               cmp.result = NumericSign(parseVersion(cmp.a), parseVersion(cmp.b))
        /\ (cmp.a = <<"1", "0", ".", "0", ".", "0">> /\ cmp.b = <<"9", ".", "0", ".", "0">>) => cmp.result = 1
        /\ (cmp.a = <<"1", ".", "9", ".", "0">> /\ cmp.b = <<"1", ".", "1", "0", ".", "0">>) => cmp.result = -1
        /\ (WellFormed(cmp.a) /\ cmp.a = cmp.b) => cmp.result = 0
        /\ ~(WellFormed(cmp.a) /\ WellFormed(cmp.b)) =>
               cmp.result = LexicographicSign(cmp.a, cmp.b)

\* 10.0.0 has been compared with 9.0.0, where the two orders disagree
C24_Witness ==
    cmp.pc = "done" /\ cmp.a = <<"1", "0", ".", "0", ".", "0">> /\ cmp.b = <<"9", ".", "0", ".", "0">> /\ cmp.result = 1

-----------------------------------------------------------------------------
(* Claim C30.                                                              *)

\* compareVersions(a, b) is the opposite of compareVersions(b, a)
Antisymmetric ==
    cmp.pc = "done" => cmp.result = 0 - compareVersions(cmp.b, cmp.a)

\* C30: compareVersions orders all strings consistently: the answer for
\* (a, b) is the opposite of the answer for (b, a), and when a is not after
\* b and b is not after c, a is not after c.
C30_ConsistentOrdering ==
    cmp.pc = "done" =>
        /\ cmp.result = 0 - compareVersions(cmp.b, cmp.a)
        /\ \A c \in VersionStrings :
               (cmp.result <= 0 /\ compareVersions(cmp.b, c) <= 0)
                   => compareVersions(cmp.a, c) <= 0

-----------------------------------------------------------------------------
(* Claim C25.                                                              *)

\* C25: a call of canMigrate or migrate that has entered its loop leaves it,
\* with a return or a throw, whatever the registry holds.
C25_CallsTerminate == (mig.pc = "loop") ~> (mig.pc = "done")

-----------------------------------------------------------------------------
(* Claim C26.                                                              *)

\* on an outdated specimen, what one call has answered is what the other
\* call answers on the same registry
Predicts ==
    (mig.pc = "done" /\ isOutdated(mig.specimen.version)) =>
        /\ MigrateDone =>
               /\ mig.result.kind \in {"return", "throw"}
               /\ Outcome("canMigrate", MIGRATION_REGISTRY, mig.specimen)
                      = Answered(mig.result.kind = "return")
        /\ CanMigrateDone =>
               /\ mig.result.kind = "bool"
               /\ Outcome("migrate", MIGRATION_REGISTRY, mig.specimen).kind
                      = (IF mig.result.bool THEN "return" ELSE "throw")

\* a step of a call leaves the registry and the specimen passed in as they were
CallKeeps ==
    (mig.pc # "idle" \/ mig'.pc # "idle") =>
        /\ MIGRATION_REGISTRY' = MIGRATION_REGISTRY
        /\ (mig.pc # "idle" /\ mig'.pc # "idle") => mig'.specimen = mig.specimen

\* C26: for an outdated specimen, canMigrate answers true exactly when
\* migrate returns a specimen and false exactly when migrate throws "No
\* migration path"; and no step of either call changes the registry or the
\* specimen passed in.
C26_CanMigratePredictsMigrate == []Predicts /\ [][CallKeeps]_vars

\* canMigrate has answered true after a walk of two migrations
C26_Witness ==
    /\ CanMigrateDone
    /\ isOutdated(mig.specimen.version)
    /\ mig.result.bool
    /\ mig.hops = 2

-----------------------------------------------------------------------------
(* specimen.ts: createSpecimen, continued.                                 *)

\* expandStrain replaced by the identity
createSpecimenKeepStrain(registry, env, count, input) ==
    LET resolvedType == resolveTypeAlias(registry, Get(input, "type").v)
        specimen == Obj(<< <<"@context", Str(WOLS_CONTEXT)>>, <<"@type", Str(<<"S", "p", "e", "c", "i", "m", "e", "n">>)>>,
                           <<"id", Str(createSpecimenId(env, count).id)>>,
                           <<"version", Str(WOLS_VERSION)>>,
                           <<"type", Str(resolvedType)>>,
                           <<"species", Get(input, "species")>> >>)
    IN  IF ~isSpecimenType(Str(resolvedType))
        THEN ThrownError(<<"Invalid specimen type:", Get(input, "type").v>>)
        ELSE Created(CopyAllDefined(specimen, input,
                                    <<"strain", "stage", "batch", "organization", "creator",
                                      "custom", "_meta">>, 1))

createSpecimen(registry, env, count, input) ==
    LET strain == expandStrain(Get(input, "strain"))
        resolvedType == resolveTypeAlias(registry, Get(input, "type").v)
        specimen == Obj(<< <<"@context", Str(WOLS_CONTEXT)>>, <<"@type", Str(<<"S", "p", "e", "c", "i", "m", "e", "n">>)>>,
                           <<"id", Str(createSpecimenId(env, count).id)>>,
                           <<"version", Str(WOLS_VERSION)>>,
                           <<"type", Str(resolvedType)>>,
                           <<"species", Get(input, "species")>> >>)
        withStrain == IF strain.k # "undefined" THEN Put(specimen, "strain", strain)
                      ELSE specimen
    IN  IF ~isSpecimenType(Str(resolvedType))
        THEN ThrownError(<<"Invalid specimen type:", Get(input, "type").v>>)
        ELSE Created(CopyAllDefined(withStrain, input,
                                    <<"stage", "batch", "organization", "creator",
                                      "custom", "_meta">>, 1))

-----------------------------------------------------------------------------
(* validateSpecimen() at work: the inputs the model draws, and the call.    *)

ContextInputs == {Undefined, Str(WOLS_CONTEXT), Str(<<"h", "t", "t", "p", "s", ":", "/", "/", "s", "c", "h", "e", "m", "a", ".", "o", "r", "g">>)}
TypeInputs == {Str(<<"S", "p", "e", "c", "i", "m", "e", "n">>), Str(<<"T", "h", "i", "n", "g">>)}
IdInputs == {Undefined, Str(<<"w", "e", "m", "u", "s", "h", ":", "a", "b", "1", "2">>), Str(<<"w", "e", "m", "u", "s", "h", ":", "A", "B", "-", "1", "2">>), Num(42)}
VersionInputs == {Str(WOLS_VERSION), Str(<<"1", ".", "2">>)}
SpecimenTypeInputs == {Str(<<"C", "U", "L", "T", "U", "R", "E">>), Str(<<"L", "I", "Q", "U", "I", "D", "_", "C", "U", "L", "T", "U", "R", "E">>)}
SpeciesInputs == {Str(<<"P", "l", "e", "u", "r", "o", "t", "u", "s", " ", "o", "s", "t", "r", "e", "a", "t", "u", "s">>), Str(<<" ", " ">>)}
StageInputs == {Undefined, Str(<<"C", "O", "L", "O", "N", "I", "Z", "A", "T", "I", "O", "N">>), Str(<<"B", "L", "O", "O", "M", "I", "N", "G">>)}
CreatedInputs ==
    {Undefined, Str(<<"2", "0", "2", "5", "-", "0", "1", "-", "1", "5", "T", "1", "0", ":", "3", "0", ":", "0", "0", "Z">>), Str(<<"2", "0", "2", "5", "-", "0", "1", "-", "1", "5">>), Num(1736937000)}
StrainInputs ==
    {Undefined,
     Obj(<< <<"name", Str(<<"B", "l", "u", "e", " ", "O", "y", "s", "t", "e", "r">>)>>, <<"generation", Str(<<"F", "2">>)>> >>),
     Obj(<< <<"generation", Str(<<"G", "1">>)>>, <<"clonalGeneration", Num(0)>> >>),
     Str(<<"B", "l", "u", "e", " ", "O", "y", "s", "t", "e", "r">>)}
\* properties beyond the schema's
ExtraInputs ==
    {<<>>,
     << <<"extra", Str(<<"x">>)>> >>,
     << <<"_meta", Obj(<< <<"sourceId", Str(<<"a", "b", "1", "2">>)>> >>)>> >>}

\* an object literal: the properties written, less those left out
ObjectLiteral(props) == Obj(SelectSeq(props, LAMBDA p : p[2].k # "undefined"))

ObjectInputs ==
    {ObjectLiteral(<< <<"@context", r.context>>, <<"@type", r.type>>, <<"id", r.id>>,
                      <<"version", r.version>>, <<"type", r.specimenType>>,
                      <<"species", r.species>>, <<"stage", r.stage>>,
                      <<"created", r.created>>, <<"strain", r.strain>> >> \o r.extra) :
        r \in [context : ContextInputs, type : TypeInputs, id : IdInputs,
               version : VersionInputs, specimenType : SpecimenTypeInputs,
               species : SpeciesInputs, stage : StageInputs, created : CreatedInputs,
               strain : StrainInputs, extra : ExtraInputs]}

NonObjectInputs == {Undefined, Null, Str(<<"s", "p", "e", "c", "i", "m", "e", "n">>), Num(42), Arr(<<>>)}

ValidationInputs == ObjectInputs \cup NonObjectInputs

ValidationOptions ==
    {NoOptions,
     [NoOptions EXCEPT !.allowUnknownFields = "false", !.level = "strict"],
     [NoOptions EXCEPT !.level = "lenient"],
     [NoOptions EXCEPT !.allowUnknownFields = "true"],
     [NoOptions EXCEPT !.allowUnknownFields = "true", !.level = "lenient"]}

InitValidation ==
    /\ MigrationIdle /\ ParserIdle /\ CryptoIdle /\ CompactUrlIdle /\ SpecimenIdle
    /\ CompareIdle /\ QRIdle
    /\ \E s \in ValidationInputs : val = [ValIdle EXCEPT !.specimen = s]

ValidateSpecimen(options) ==
    /\ val.pc = "idle"
    /\ val' = [val EXCEPT !.pc = "done", !.options = options,
                          !.result = validateSpecimen(val.specimen, options)]
    /\ UNCHANGED otherThanValidation

NextValidation == \E options \in ValidationOptions : ValidateSpecimen(options)

SpecValidation == InitValidation /\ [][NextValidation]_vars

-----------------------------------------------------------------------------
(* Claim C10.                                                              *)

\* the top-level field rules, in the order validateSpecimen runs them
FieldRules ==
    <<"@context", "@type", "id", "version", "type", "species", "stage", "created", "strain">>

\* the level in force
LevelOf(options) == IF options.level = "unset" THEN "strict" ELSE options.level

\* the object breaks the rule of the field, in a way that is an error at this
\* level (at level lenient an unknown stage and a malformed date are warnings)
Violates(rule, o, level) ==
    LET x == Get(o, rule)
    IN  CASE rule = "@context" -> ~(x.k = "string" /\ x.v = WOLS_CONTEXT)
          [] rule = "@type" -> ~(x.k = "string" /\ x.v = <<"S", "p", "e", "c", "i", "m", "e", "n">>)
          [] rule = "id" -> ~(x.k = "string" /\ SPECIMEN_ID_PATTERN(x.v))
          [] rule = "version" -> ~(x.k = "string" /\ SEMVER_PATTERN(x.v))
          [] rule = "type" -> ~(x.k = "string" /\ x.v \in {SPECIMEN_TYPES[i] : i \in 1..5})
          [] rule = "species" -> ~isNonEmptyString(x)
          [] rule = "stage" ->
                 /\ ~IsNullish(x)
                 /\ ~(x.k = "string" /\ x.v \in {GROWTH_STAGES[i] : i \in 1..7})
                 /\ level = "strict"
          [] rule = "created" ->
                 /\ ~IsNullish(x)
                 /\ x.k = "string" => (~isValidISO8601(x.v) /\ level = "strict")
          [] rule = "strain" ->
                 /\ ~IsNullish(x)
                 /\ x.k = "object" =>
                        \/ ~isNonEmptyString(Get(x, "name"))
                        \/ ~(Get(x, "generation").k = "undefined"
                               \/ (Get(x, "generation").k = "string"
                                     /\ GENERATION_PATTERN(Get(x, "generation").v)))
                        \/ ~(Get(x, "clonalGeneration").k = "undefined"
                               \/ (Get(x, "clonalGeneration").k = "number"
                                     /\ Get(x, "clonalGeneration").v >= 1))
                        \/ Get(x, "source").k \notin {"undefined", "string"}
                        \/ Get(x, "lineage").k \notin {"undefined", "string"}

\* the top-level field an error's path lies in
TopField(path) ==
    IF path \in {"strain.name", "strain.generation", "strain.clonalGeneration",
                 "strain.source", "strain.lineage"}
    THEN "strain" ELSE path

\* the fields the errors of a list lie in, each named once, in the list's order
RECURSIVE FieldsOf(_)
FieldsOf(errors) ==
    IF errors = <<>> THEN <<>>
    ELSE LET rest == FieldsOf(Tail(errors))
             f == TopField(Head(errors).path)
         IN  IF rest # <<>> /\ rest[1] = f THEN rest ELSE <<f>> \o rest

ValidatedObject == val.pc = "done" /\ val.specimen.k = "object"

\* C10: for an object input validateSpecimen runs every field rule, in the
\* fixed order @context, @type, id, version, type, species, stage, created,
\* strain, whatever failed before; the errors of the result are those of the
\* violated rules in that order, and valid holds exactly when there is none.
C10_EveryRuleInOrder ==
    ValidatedObject =>
        /\ FieldsOf(val.result.errors) =
               SelectSeq(FieldRules,
                         LAMBDA rule : Violates(rule, val.specimen, LevelOf(val.options)))
        /\ val.result.valid <=> val.result.errors = <<>>

\* every one of the nine rules is violated at once, the strain's three times
C10_Witness ==
    /\ ValidatedObject
    /\ FieldsOf(val.result.errors) = FieldRules
    /\ Len(val.result.errors) = 11
    /\ ~val.result.valid

-----------------------------------------------------------------------------
(* Claim C11.                                                              *)

\* the top-level keys of the validated object that KNOWN_FIELDS lacks
UnknownKeys == {k \in {ObjectKeys(val.specimen)[i] : i \in 1..Len(val.specimen.v)} :
                    k \notin KNOWN_FIELDS}

\* the warnings of a list that name the key as an unknown field
UnknownFieldWarnings(warnings, key) ==
    SelectSeq(warnings, LAMBDA w : w.code = "UNKNOWN_FIELD" /\ w.path = key)

\* C11: a top-level key outside the known-field set adds no error and leaves
\* valid as it is, at every level: against the same object without the key,
\* the result has the same errors and the same valid, and its warnings are
\* the other object's plus exactly one UNKNOWN_FIELD warning for the key when
\* allowUnknownFields is false (or left out), plus nothing when it is true.
C11_UnknownKeyOnlyWarns ==
    ValidatedObject =>
        \A key \in UnknownKeys :
            LET without == validateSpecimen(Delete(val.specimen, key), val.options)
                mine == UnknownFieldWarnings(val.result.warnings, key)
            IN  /\ val.result.errors = without.errors
                /\ val.result.valid = without.valid
                /\ SelectSeq(val.result.warnings, LAMBDA w : w.path # key) = without.warnings
                /\ Len(mine) = IF val.options.allowUnknownFields = "true" THEN 0 ELSE 1
                /\ Len(mine) + Len(without.warnings) = Len(val.result.warnings)

\* an unknown key in an object with errors, validated at level lenient with
\* allowUnknownFields left out: one warning for the key
C11_Witness ==
    /\ ValidatedObject
    /\ "extra" \in UnknownKeys
    /\ val.options = [NoOptions EXCEPT !.level = "lenient"]
    /\ Len(UnknownFieldWarnings(val.result.warnings, "extra")) = 1
    /\ ~val.result.valid

-----------------------------------------------------------------------------
(* Claim C12.                                                              *)

\* C12: _meta is a known field: validated with default options, an object
\* gets no unknown-field warning whose path is _meta, so an object carrying
\* _meta that is otherwise free of warnings has an empty warning list.
C12_MetaIsKnown ==
    (ValidatedObject /\ val.options = NoOptions) =>
        /\ UnknownFieldWarnings(val.result.warnings, "_meta") = <<>>
        /\ (/\ Get(val.specimen, "_meta").k # "undefined"
            /\ validateSpecimen(Delete(val.specimen, "_meta"), NoOptions).warnings = <<>>)
               => val.result.warnings = <<>>

-----------------------------------------------------------------------------
(* Claim C15.                                                              *)

\* the findings of a list that lie at the path
FindingsAt(findings, path) == SelectSeq(findings, LAMBDA f : f.path = path)

\* the stage is present and is no growth stage
UnknownStage == LET x == Get(val.specimen, "stage") IN ~IsNullish(x) /\ ~isGrowthStage(x)

\* created is a string that is no ISO 8601 date-time
MalformedCreated ==
    LET x == Get(val.specimen, "created") IN x.k = "string" /\ ~isValidISO8601(x.v)

\* created is present and is not a string
CreatedNotString ==
    LET x == Get(val.specimen, "created") IN ~IsNullish(x) /\ x.k # "string"

\* the finding for the field is one warning and no error
OnlyWarned(path) ==
    /\ Len(FindingsAt(val.result.warnings, path)) = 1
    /\ FindingsAt(val.result.errors, path) = <<>>

\* the finding for the field is one error and no warning, and the record is
\* invalid
OnlyFailed(path) ==
    /\ Len(FindingsAt(val.result.errors, path)) = 1
    /\ FindingsAt(val.result.warnings, path) = <<>>
    /\ ~val.result.valid

\* C15 as stated: under level lenient every failure of the created rule and
\* every unknown stage is a warning (the stage's with a suggestion) and never
\* an error; under level strict the same failures are errors and the record is
\* invalid.
C15_LenientOnlyWarns ==
    ValidatedObject =>
        IF LevelOf(val.options) = "lenient"
        THEN /\ UnknownStage =>
                    /\ OnlyWarned("stage")
                    /\ FindingsAt(val.result.warnings, "stage")[1].suggestion # ""
             /\ (MalformedCreated \/ CreatedNotString) => OnlyWarned("created")
        ELSE /\ UnknownStage => OnlyFailed("stage")
             /\ (MalformedCreated \/ CreatedNotString) => OnlyFailed("created")

\* C15, amended: under level lenient an unknown stage and a created string
\* that is no ISO 8601 date-time are warnings (the stage's with a suggestion),
\* never errors; under level strict they are errors and the record is invalid;
\* a created value that is not a string is an error at both levels.
C15_LenientWarnsOfFormat ==
    ValidatedObject =>
        /\ CreatedNotString => OnlyFailed("created")
        /\ IF LevelOf(val.options) = "lenient"
           THEN /\ UnknownStage =>
                       /\ OnlyWarned("stage")
                       /\ FindingsAt(val.result.warnings, "stage")[1].suggestion # ""
                /\ MalformedCreated => OnlyWarned("created")
           ELSE /\ UnknownStage => OnlyFailed("stage")
                /\ MalformedCreated => OnlyFailed("created")

\* at level lenient, an unknown stage and a malformed date in a record with
\* nothing else wrong: two warnings, and the record is valid
C15_Witness ==
    /\ ValidatedObject
    /\ LevelOf(val.options) = "lenient"
    /\ UnknownStage /\ MalformedCreated
    /\ OnlyWarned("stage") /\ OnlyWarned("created")
    /\ val.result.valid

-----------------------------------------------------------------------------
(* validateSpecimen() and the id options of ValidationOptions: idMode and   *)
(* customIdValidator.  The objects drawn differ in their id alone.          *)

\* IdValidationMode, or the option left out
IdModes == {"unset", "strict", "ulid", "uuid", "any"}

\* the predicates a caller passes as customIdValidator, by name
IdValidators == {"unset", "acceptAll", "startsWithCustom"}

\* customIdValidator(id)
IdValidatorSays(f, id) ==
    CASE f = "acceptAll" -> TRUE
      [] f = "startsWithCustom" -> StartsWith(id, <<"w", "e", "m", "u", "s", "h", ":", "C", "U", "S", "T", "O", "M">>)

UlidId == <<"w", "e", "m", "u", "s", "h", ":", "0", "1", "A", "R", "Z", "3", "N", "D", "E", "K", "T", "S", "V", "4", "R", "R", "F", "F", "Q", "6", "9", "G", "5", "F", "A", "V">>

IdModeInputs ==
    {Undefined, Num(42), Str(<<"w", "e", "m", "u", "s", "h", ":", "a", "b", "1", "2">>), Str(UlidId), Str(<<"w", "e", "m", "u", "s", "h", ":", "C", "U", "S", "T", "O", "M", "1", "2", "3">>),
     Str(<<"w", "e", "m", "u", "s", "h", ":">>), Str(<<"a", "b", "1", "2">>), Str(<<"w", "e", "m", "u", "s", "h", ":", "s", "o", "m", "e", " ", "i", "d", "!">>)}

\* a specimen with nothing wrong apart, perhaps, from its id
IdObject(id) ==
    ObjectLiteral(<< <<"@context", Str(WOLS_CONTEXT)>>, <<"@type", Str(<<"S", "p", "e", "c", "i", "m", "e", "n">>)>>,
                     <<"id", id>>, <<"version", Str(WOLS_VERSION)>>,
                     <<"type", Str(<<"C", "U", "L", "T", "U", "R", "E">>)>>,
                     <<"species", Str(<<"P", "l", "e", "u", "r", "o", "t", "u", "s", " ", "o", "s", "t", "r", "e", "a", "t", "u", "s">>)>> >>)

IdValidationOptions ==
    {[NoOptions EXCEPT !.idMode = m, !.customIdValidator = f, !.level = l] :
        m \in IdModes, f \in IdValidators, l \in {"unset", "lenient"}}

InitIdValidation ==
    /\ MigrationIdle /\ ParserIdle /\ CryptoIdle /\ CompactUrlIdle /\ SpecimenIdle
    /\ CompareIdle /\ QRIdle
    /\ \E id \in IdModeInputs : val = [ValIdle EXCEPT !.specimen = IdObject(id)]

NextIdValidation == \E options \in IdValidationOptions : ValidateSpecimen(options)

SpecIdValidation == InitIdValidation /\ [][NextIdValidation]_vars

-----------------------------------------------------------------------------
(* Claim C13.                                                              *)

\* C13: with no customIdValidator, the id wemush:01ARZ3NDEKTSV4RRFFQ69G5FAV
\* validates under idMode ulid and fails under the default strict mode; and
\* under idMode any a record validates exactly when its id is the prefix
\* wemush: followed by a non-empty suffix.
C13_IdModeExclusive ==
    (val.pc = "done" /\ val.options.customIdValidator = "unset") =>
        LET id == Get(val.specimen, "id")
        IN  /\ (id = Str(UlidId) /\ val.options.idMode = "ulid") => val.result.valid
            /\ (id = Str(UlidId) /\ val.options.idMode \in {"unset", "strict"})
                   => ~val.result.valid
            /\ val.options.idMode = "any" =>
                   (val.result.valid <=>
                        (id.k = "string" /\ StartsWith(id.v, <<"w", "e", "m", "u", "s", "h", ":">>) /\ Len(id.v) > 7))

-----------------------------------------------------------------------------
(* Claim C14.                                                              *)

\* C14: with a customIdValidator, the id rule passes exactly when the
\* predicate returns true on the id string, whatever idMode is.
C14_CustomValidatorOverrides ==
    (val.pc = "done" /\ val.options.customIdValidator # "unset"
                     /\ Get(val.specimen, "id").k = "string") =>
        (val.result.valid <=>
             IdValidatorSays(val.options.customIdValidator, Get(val.specimen, "id").v))

-----------------------------------------------------------------------------
(* Claim C19.                                                              *)

\* the codes of the errors a result reports for the id
IdErrorCodes(result) ==
    {result.errors[i].code : i \in {j \in 1..Len(result.errors) : result.errors[j].path = "id"}}

\* C19: an id that is present and no string, and an id that is a string the
\* id pattern rejects, are reported with different error codes: the code
\* reported for the one is never reported for the other.
C19_TypeAndPatternCodesDiffer ==
    (val.pc = "done" /\ ~IsNullish(Get(val.specimen, "id"))
                     /\ Get(val.specimen, "id").k # "string") =>
        /\ IdErrorCodes(val.result) # {}
        /\ \A id \in IdModeInputs :
               (id.k = "string" /\ ~SPECIMEN_ID_PATTERN(id.v)) =>
                   LET other == validateSpecimen(IdObject(id), val.options)
                   IN  /\ IdErrorCodes(other) # {}
                       /\ IdErrorCodes(other) \cap IdErrorCodes(val.result) = {}

-----------------------------------------------------------------------------
(* validateSpecimen() on a candidate of type unknown: values of every type   *)
(* of the language, as the candidate and as one of its properties.          *)

\* values a property of an unknown candidate may hold
ExoticValues ==
    {Null, Num(42), NaN, Arr(<<>>), Obj(<<>>), NativeFunction(<<"n", "o", "w">>), Sym(<<"s", "t", "a", "g", "e">>),
     Str(<<>>)}

\* a record that validates
SoundProps ==
    << <<"@context", Str(WOLS_CONTEXT)>>, <<"@type", Str(<<"S", "p", "e", "c", "i", "m", "e", "n">>)>>,
       <<"id", Str(<<"w", "e", "m", "u", "s", "h", ":", "a", "b", "1", "2">>)>>, <<"version", Str(WOLS_VERSION)>>,
       <<"type", Str(<<"C", "U", "L", "T", "U", "R", "E">>)>>, <<"species", Str(<<"P", "l", "e", "u", "r", "o", "t", "u", "s", " ", "o", "s", "t", "r", "e", "a", "t", "u", "s">>)>>,
       <<"stage", Str(<<"C", "O", "L", "O", "N", "I", "Z", "A", "T", "I", "O", "N">>)>>, <<"created", Str(<<"2", "0", "2", "5", "-", "0", "1", "-", "1", "5", "T", "1", "0", ":", "3", "0", ":", "0", "0", "Z">>)>>,
       <<"strain", Obj(<< <<"name", Str(<<"B", "l", "u", "e", " ", "O", "y", "s", "t", "e", "r">>)>>,
                          <<"generation", Str(<<"F", "2">>)>> >>)>> >>

\* { ...sound, [key]: value }
WithProp(key, value) ==
    Obj([i \in 1..Len(SoundProps) |->
            IF SoundProps[i][1] = key THEN <<key, value>> ELSE SoundProps[i]])

\* { ...sound, strain: { name, generation: value } }
WithGeneration(value) ==
    WithProp("strain", Obj(<< <<"name", Str(<<"B", "l", "u", "e", " ", "O", "y", "s", "t", "e", "r">>)>>, <<"generation", value>> >>))

CandidateInputs ==
    NonObjectInputs
        \cup {NaN, NativeFunction(<<"n", "o", "w">>), Sym(<<"s", "p", "e", "c", "i", "m", "e", "n">>), Obj(SoundProps)}
        \cup {WithProp(SoundProps[i][1], x) : i \in 1..Len(SoundProps), x \in ExoticValues}
        \cup {WithGeneration(x) : x \in ExoticValues}

InitCandidateValidation ==
    /\ MigrationIdle /\ ParserIdle /\ CryptoIdle /\ CompactUrlIdle /\ SpecimenIdle
    /\ CompareIdle /\ QRIdle
    /\ \E s \in CandidateInputs : val = [ValIdle EXCEPT !.specimen = s]

ValidateCandidate(options) ==
    /\ val.pc = "idle"
    /\ val' = [val EXCEPT !.pc = "done", !.options = options,
                          !.result = validateSpecimen(val.specimen, options)]
    /\ UNCHANGED otherThanValidation

NextCandidateValidation == \E options \in ValidationOptions : ValidateCandidate(options)

SpecCandidateValidation == InitCandidateValidation /\ [][NextCandidateValidation]_vars

-----------------------------------------------------------------------------
(* Claim C23.                                                              *)

\* a candidate that is null, undefined or no plain object is answered with
\* valid false, one error at the empty path, and no warnings
NonObjectOneTopLevelError ==
    (val.pc = "done" /\ val.specimen.k # "object") =>
        /\ ~val.result.thrown
        /\ ~val.result.valid
        /\ Len(val.result.errors) = 1
        /\ val.result.errors[1].path = ""
        /\ val.result.warnings = <<>>

\* C23: validateSpecimen returns a result and raises nothing, whatever the
\* candidate and the options; and a candidate that is null, undefined or no
\* object (an array included) gets valid false, exactly one error, at the
\* empty path, and no warnings.
C23_NeverThrows ==
    /\ val.pc = "done" => ~val.result.thrown
    /\ NonObjectOneTopLevelError

-----------------------------------------------------------------------------
(* serializeSpecimen() and parseSpecimen() at work.                        *)

SomeStrain == Obj(<< <<"name", Str(<<"B", "l", "u", "e", " ", "O", "y", "s", "t", "e", "r">>)>>, <<"generation", Str(<<"F", "2">>)>> >>)
SomeMeta == Obj(<< <<"sourceId", Str(<<"a", "b", "1", "2">>)>> >>)
SomeCustom == Obj(<< <<"note", Str(<<"s", "h", "e", "l", "f", " ", "3">>)>> >>)

\* specimens in memory: the required fields, and each optional field absent,
\* set, or (where the validator lets it pass) null
SpecimenInputs ==
    {ObjectLiteral(<< <<"@context", Str(WOLS_CONTEXT)>>, <<"@type", Str(<<"S", "p", "e", "c", "i", "m", "e", "n">>)>>,
                      <<"id", r.id>>, <<"version", Str(WOLS_VERSION)>>,
                      <<"type", Str(<<"C", "U", "L", "T", "U", "R", "E">>)>>, <<"species", Str(<<"P", "l", "e", "u", "r", "o", "t", "u", "s", " ", "o", "s", "t", "r", "e", "a", "t", "u", "s">>)>>,
                      <<"strain", r.strain>>, <<"stage", r.stage>>, <<"created", r.created>>,
                      <<"batch", r.batch>>, <<"organization", r.organization>>,
                      <<"creator", r.creator>>, <<"custom", r.custom>>,
                      <<"signature", r.signature>>, <<"_meta", r.meta>> >>) :
        r \in [id : {Str(<<"w", "e", "m", "u", "s", "h", ":", "a", "b", "1", "2">>), Str(<<"w", "e", "m", "u", "s", "h", ":", "A", "B", "-", "1", "2">>)},
               strain : {Undefined, SomeStrain, Null},
               stage : {Undefined, Str(<<"C", "O", "L", "O", "N", "I", "Z", "A", "T", "I", "O", "N">>), Null},
               created : {Undefined, Str(<<"2", "0", "2", "5", "-", "0", "1", "-", "1", "5", "T", "1", "0", ":", "3", "0", ":", "0", "0", "Z">>), Null},
               batch : {Undefined, Str(<<"B", "7">>), Null},
               organization : {Undefined, Str(<<"o", "r", "g", "1">>)},
               creator : {Undefined, Str(<<"u", "1">>)},
               custom : {Undefined, SomeCustom},
               signature : {Undefined, Str(<<"s", "i", "g">>)},
               meta : {Undefined, SomeMeta, Null}]}

\* texts from elsewhere: not JSON, JSON that is no object, and objects with
\* no, one and several schema violations
TextInputs ==
    {MalformedText,
     JSONStringify(Null) , JSONStringify(Arr(<<>>)), JSONStringify(Num(42)),
     JSONStringify(Str(<<"s", "p", "e", "c", "i", "m", "e", "n">>))}
    \cup {JSONStringify(ObjectLiteral(
              << <<"@context", r.context>>, <<"@type", Str(<<"S", "p", "e", "c", "i", "m", "e", "n">>)>>, <<"id", r.id>>,
                 <<"version", Str(WOLS_VERSION)>>, <<"type", Str(<<"C", "U", "L", "T", "U", "R", "E">>)>>,
                 <<"species", Str(<<"P", "l", "e", "u", "r", "o", "t", "u", "s", " ", "o", "s", "t", "r", "e", "a", "t", "u", "s">>)>>, <<"stage", r.stage>> >>)) :
              r \in [context : ContextInputs, id : IdInputs, stage : StageInputs]}

InitParser ==
    /\ MigrationIdle /\ ValidationIdle /\ CryptoIdle /\ CompactUrlIdle /\ SpecimenIdle
    /\ CompareIdle /\ QRIdle
    /\ par = ParIdle

\* serializeSpecimen(s)
SerializeSpecimen(s) ==
    /\ par.pc = "idle"
    /\ par' = [par EXCEPT !.pc = "text", !.specimen = s, !.json = serializeSpecimen(s)]
    /\ UNCHANGED otherThanParser

\* a text arrives that the serializer did not write
ReceiveText(t) ==
    /\ par.pc = "idle"
    /\ par' = [par EXCEPT !.pc = "text", !.json = t]
    /\ UNCHANGED otherThanParser

\* parseSpecimen(json)
ParseSpecimen ==
    /\ par.pc = "text"
    /\ par' = [par EXCEPT !.pc = "done", !.result = parseSpecimen(par.json)]
    /\ UNCHANGED otherThanParser

\* serializeSpecimen(result.data), the specimen parseSpecimen returned
SerializeParsed ==
    /\ par.pc = "done" /\ par.result.success
    /\ par' = [par EXCEPT !.pc = "emitted", !.emitted = serializeSpecimen(par.result.data)]
    /\ UNCHANGED otherThanParser

NextParser ==
    \/ \E s \in SpecimenInputs : SerializeSpecimen(s)
    \/ \E t \in TextInputs : ReceiveText(t)
    \/ ParseSpecimen
    \/ SerializeParsed

SpecParser == InitParser /\ [][NextParser]_vars

-----------------------------------------------------------------------------
(* Claim C5.                                                               *)

\* a specimen went through serializeSpecimen and then parseSpecimen
RoundTripDone == par.pc = "done" /\ par.specimen.k = "object"

\* the keys of the members the text holds
EmittedKeys == {par.json.doc.v[i][1] : i \in 1..Len(par.json.doc.v)}

\* C5: for every specimen s validateSpecimen accepts,
\* parseSpecimen(serializeSpecimen(s)) succeeds with a specimen that equals s
\* in every field that serialization emits.
C5_RoundTripKeepsEmittedFields ==
    (RoundTripDone /\ validateSpecimen(par.specimen, NoOptions).valid) =>
        /\ par.result.success
        /\ \A key \in EmittedKeys : Get(par.result.data, key) = Get(par.specimen, key)

-----------------------------------------------------------------------------
(* Claim C16.                                                              *)

\* parseSpecimen has returned
Parsed == par.pc = "done"

\* C16: parseSpecimen classifies every outcome: text that is not JSON gives
\* INVALID_JSON; a decoded value that is no plain object gives INVALID_FORMAT;
\* exactly one validation error comes back as a parse error with that
\* error's own code, message and path; two or more come back as one
\* validation error that carries the whole list; and success is returned only
\* when validation reports no error.
C16_EveryOutcomeClassified ==
    Parsed =>
        LET doc == par.json.doc
            errors == validateSpecimen(doc, NoOptions).errors
            e == par.result.error
        IN  /\ ~par.json.wellFormed =>
                   ~par.result.success /\ e.code = "WOLS_INVALID_JSON"
            /\ (par.json.wellFormed /\ ~isPlainObject(doc)) =>
                   ~par.result.success /\ e.code = "WOLS_INVALID_FORMAT"
            /\ (par.json.wellFormed /\ isPlainObject(doc) /\ Len(errors) = 1) =>
                   /\ ~par.result.success
                   /\ e.name = "WolsParseError"
                   /\ e.code = errors[1].code
                   /\ e.message = errors[1].message
                   /\ e.path = errors[1].path
            /\ (par.json.wellFormed /\ isPlainObject(doc) /\ Len(errors) >= 2) =>
                   /\ ~par.result.success
                   /\ e.name = "WolsValidationError"
                   /\ e.errors = errors
            /\ par.result.success =>
                   par.json.wellFormed /\ isPlainObject(doc) /\ errors = <<>>

-----------------------------------------------------------------------------
(* Claim C17.                                                              *)

\* key in o
HasKey(o, key) == \E i \in 1..Len(o.v) : o.v[i][1] = key

\* C17: on success the result of parseSpecimen has each optional field
\* exactly when the decoded object has it, with the decoded value: an absent
\* field does not become null, and a field that is null is neither dropped
\* nor replaced.
C17_OptionalFieldsCopiedAsFound ==
    (Parsed /\ par.result.success) =>
        \A i \in 1..Len(OptionalKeys) :
            LET key == OptionalKeys[i]
            IN  /\ HasKey(par.result.data, key) <=> HasKey(par.json.doc, key)
                /\ Get(par.result.data, key) = Get(par.json.doc, key)

-----------------------------------------------------------------------------
(* Claim C18.                                                              *)

\* serializeSpecimen has written the specimen parseSpecimen returned
Emitted == par.pc = "emitted"

\* C18: for a specimen parseSpecimen returned, serializeSpecimen emits the
\* keys in the order @context, @type, id, version, type, species, strain,
\* stage, created, batch, organization, creator, custom, signature, _meta,
\* leaves out every optional field the specimen lacks, and emits no optional
\* field with the value null.
C18_FixedOrderNoNulls ==
    Emitted =>
        LET doc == par.emitted.doc
        IN  /\ ObjectKeys(doc) =
                   SelectSeq(RequiredKeys \o OptionalKeys, LAMBDA key : HasKey(doc, key))
            /\ \A i \in 1..Len(RequiredKeys) : HasKey(doc, RequiredKeys[i])
            /\ \A i \in 1..Len(OptionalKeys) :
                   /\ ~HasKey(par.result.data, OptionalKeys[i]) => ~HasKey(doc, OptionalKeys[i])
                   /\ Get(doc, OptionalKeys[i]).k # "null"

-----------------------------------------------------------------------------
(* encryptSpecimen() and decryptSpecimen() at work.                        *)

PlainSpecimen ==
    Obj(<< <<"@context", Str(WOLS_CONTEXT)>>, <<"@type", Str(<<"S", "p", "e", "c", "i", "m", "e", "n">>)>>,
           <<"id", Str(<<"w", "e", "m", "u", "s", "h", ":", "a", "b", "1", "2">>)>>, <<"version", Str(WOLS_VERSION)>>,
           <<"type", Str(<<"C", "U", "L", "T", "U", "R", "E">>)>>, <<"species", Str(<<"P", "l", "e", "u", "r", "o", "t", "u", "s", " ", "o", "s", "t", "r", "e", "a", "t", "u", "s">>)>> >>)

\* two specimens the validator accepts and one it rejects (its id has no
\* characters after the prefix)
CryptoSpecimens ==
    {PlainSpecimen,
     Put(Put(PlainSpecimen, "strain", SomeStrain), "stage", Str(<<"C", "O", "L", "O", "N", "I", "Z", "A", "T", "I", "O", "N">>)),
     Put(PlainSpecimen, "id", Str(<<"w", "e", "m", "u", "s", "h", ":">>))}

\* passwords, and a key the caller imported
CallerKeys == {Password("pw1"), Password("pw2"), CryptoKey("raw1", 0)}

\* options.iterations: left out, below the floor, the floor, the default, above it
IterationInputs == {Undefined, Num(5000), Num(10000), Num(100000), Num(300000)}

\* the initialization vectors the random source may give
IVs == {1, 2}

\* what may happen to an envelope between the two calls
Tamperings == {"drop payload", "drop iv", "flip a ciphertext bit", "truncate ciphertext",
               "garble payload encoding", "swap iv"}

Tampered(envelope, how) ==
    CASE how = "drop payload" -> [envelope EXCEPT !.payload = Missing]
      [] how = "drop iv" -> [envelope EXCEPT !.iv = MissingIv]
      [] how \in {"flip a ciphertext bit", "truncate ciphertext"} ->
             [envelope EXCEPT !.payload.bytes.intact = FALSE]
      [] how = "garble payload encoding" -> [envelope EXCEPT !.payload.decodable = FALSE]
      [] how = "swap iv" ->
             [envelope EXCEPT !.iv.bytes = CHOOSE iv \in IVs : iv # envelope.iv.bytes]

InitCrypto ==
    /\ MigrationIdle /\ ValidationIdle /\ ParserIdle /\ CompactUrlIdle /\ SpecimenIdle
    /\ CompareIdle /\ QRIdle
    /\ enc = EncIdle

\* encryptSpecimen(s, {key, iterations})
EncryptSpecimen(s, key, iterations, iv) ==
    /\ enc.pc = "idle"
    /\ LET r == encryptSpecimen(s, key, iterations, iv)
       IN  enc' = [enc EXCEPT !.pc = IF r.throws THEN "rejected" ELSE "sealed",
                              !.specimen = s, !.key = key, !.iterations = iterations,
                              !.envelope = r.envelope]
    /\ UNCHANGED otherThanCrypto

\* the envelope is damaged on its way
Tamper(how) ==
    /\ enc.pc = "sealed" /\ enc.tampering = "none"
    /\ enc' = [enc EXCEPT !.tampering = how, !.envelope = Tampered(enc.envelope, how)]
    /\ UNCHANGED otherThanCrypto

\* decryptSpecimen(envelope, {key})
DecryptSpecimen(key) ==
    /\ enc.pc = "sealed"
    /\ enc' = [enc EXCEPT !.pc = "done", !.decryptKey = key,
                          !.result = decryptSpecimen(enc.envelope, key)]
    /\ UNCHANGED otherThanCrypto

NextCrypto ==
    \/ \E s \in CryptoSpecimens, key \in CallerKeys, iterations \in IterationInputs, iv \in IVs :
           EncryptSpecimen(s, key, iterations, iv)
    \/ \E how \in Tamperings : Tamper(how)
    \/ \E key \in CallerKeys : DecryptSpecimen(key)

SpecCrypto == InitCrypto /\ [][NextCrypto]_vars

-----------------------------------------------------------------------------
(* Claims C6 and C7.                                                       *)

\* C6: for every valid specimen s, every password, and every permitted
\* iteration count at or above the floor, decrypting the untouched result of
\* encryptSpecimen with the same password succeeds with a specimen equal to s.
C6_DecryptInvertsEncrypt ==
    (/\ enc.pc = "done" /\ enc.tampering = "none"
     /\ validateSpecimen(enc.specimen, NoOptions).valid
     /\ enc.key.kind = "string" /\ enc.decryptKey = enc.key) =>
        enc.result.success /\ enc.result.data = enc.specimen

\* what decryptSpecimen reports for a wrong password
WrongPasswordError ==
    WolsEncryptionError("WOLS_DECRYPTION_ERROR",
                        <<"Decryption failed:", "decrypt: OperationError">>, "")

\* C7: every failure of decryptSpecimen (wrong password, corrupted or
\* truncated ciphertext, malformed envelope, decrypted content that is not an
\* acceptable specimen) has code DECRYPTION_ERROR and does not tell which
\* check failed: it is the error a wrong password gives.
C7_FailuresAreIndistinguishable ==
    (enc.pc = "done" /\ ~enc.result.success) =>
        /\ enc.result.error.code = "WOLS_DECRYPTION_ERROR"
        /\ enc.result.error = WrongPasswordError

-----------------------------------------------------------------------------
(* The compact-url module and the QR content at work.                      *)

UrlSpecimens ==
    {ObjectLiteral(<< <<"@context", Str(WOLS_CONTEXT)>>, <<"@type", Str(<<"S", "p", "e", "c", "i", "m", "e", "n">>)>>,
                      <<"id", Str(<<"w", "e", "m", "u", "s", "h", ":", "a", "b", "1", "2">>)>>, <<"version", Str(WOLS_VERSION)>>,
                      <<"type", Str(<<"C", "U", "L", "T", "U", "R", "E">>)>>, <<"species", Str(r.species)>>,
                      <<"strain", r.more[1]>>, <<"stage", r.stage>>,
                      <<"created", r.created>>, <<"batch", r.more[2]>> >>) :
        r \in [species : {<<"P", "l", "e", "u", "r", "o", "t", "u", "s", " ", "o", "s", "t", "r", "e", "a", "t", "u", "s">>, <<"P", "l", "e", "u", "r", "o", "t", "u", "s", " ", "d", "j", "a", "m", "o", "r">>, <<"B", "l", "u", "e", " ", "O", "y", "s", "t", "e", "r">>,
                          <<"c", "o", "n", "s", "t", "r", "u", "c", "t", "o", "r">>},
               stage : {Undefined, Str(<<"C", "O", "L", "O", "N", "I", "Z", "A", "T", "I", "O", "N">>), Str(<<"P", "R", "I", "M", "O", "R", "D", "I", "A">>)},
               created : {Undefined, Str(<<"2", "0", "2", "5", "-", "0", "1", "-", "1", "5", "T", "1", "0", ":", "3", "0", ":", "0", "0", "Z">>)},
               more : {<<Undefined, Undefined>>, <<SomeStrain, Str(<<"B", " ", "7">>)>>}]}

\* the codes and species registerSpeciesCode is called with
CodeInputs == {<<"P", "O", "S", "T", "R">>, <<"B", "&", "W">>}
SpeciesInputs2 == {<<"P", "l", "e", "u", "r", "o", "t", "u", "s", " ", "o", "s", "t", "r", "e", "a", "t", "u", "s">>, <<"P", "l", "e", "u", "r", "o", "t", "u", "s", " ", "d", "j", "a", "m", "o", "r">>, <<"B", "l", "u", "e", " ", "O", "y", "s", "t", "e", "r">>}

\* URLs from elsewhere
UrlInputs ==
    {<<"h", "t", "t", "p", "s", ":", "/", "/", "w", "e", "m", "u", "s", "h", ".", "c", "o", "m", "/", "a", "b", "1", "2">>, <<"w", "e", "m", "u", "s", "h", ":", "/", "/">>, <<"w", "e", "m", "u", "s", "h", ":", "/", "/", "v", "1">>, <<"w", "e", "m", "u", "s", "h", ":", "/", "/", "v", "1", "/">>,
     <<"w", "e", "m", "u", "s", "h", ":", "/", "/", "v", "1", "/", "a", "b", "1", "2">>, <<"w", "e", "m", "u", "s", "h", ":", "/", "/", "v", "1", "/", "a", "b", "1", "2", "?", "t", "y", "=", "C", "U", "L", "T", "U", "R", "E">>, <<"w", "e", "m", "u", "s", "h", ":", "/", "/", "v", "2", "/", "a", "b", "1", "2", "?", "s", "=", "P", "O", "S", "T", "R">>,
     <<"w", "e", "m", "u", "s", "h", ":", "/", "/", "v", "1", "/", "a", "b", "1", "2", "?", "s", "=", "B", "%", "2", "6", "W", "&", "s", "t", "=", "F", "R", "U", "I", "T", "I", "N", "G", "&", "t", "=", "1", "7", "3", "6", "9", "3", "7", "0", "0", "0">>, <<"w", "e", "m", "u", "s", "h", ":", "/", "/", "/", "a", "b", "1", "2", "?", "s", "=", "P", "O", "S", "T", "R">>,
     <<"w", "e", "m", "u", "s", "h", ":", "/", "/", "v", "1", "?", "s", "=", "P", "O", "S", "T", "R">>}

QRFormats == {"embedded", "compact"}

InitCompactUrl ==
    /\ MigrationIdle /\ ValidationIdle /\ ParserIdle /\ CryptoIdle /\ SpecimenIdle
    /\ CompareIdle /\ QRIdle
    /\ CompactUrlIdle

RegisterSpeciesCode(code, species) ==
    /\ url.pc = "idle"
    /\ LET r == registerSpeciesCode(SPECIES_CODES, SPECIES_TO_CODE, code, species)
       IN  SPECIES_CODES' = r.codes /\ SPECIES_TO_CODE' = r.toCode
    /\ UNCHANGED <<url, otherThanCompactUrl>>

ToCompactUrl(s) ==
    /\ url.pc = "idle"
    /\ url' = [url EXCEPT !.pc = "text", !.op = "toCompactUrl", !.specimen = s,
                          !.text = toCompactUrl(SPECIES_TO_CODE, s)]
    /\ UNCHANGED <<SPECIES_CODES, SPECIES_TO_CODE, otherThanCompactUrl>>

\* the content toQRCode and its siblings encode: getQRContent(s, format)
QRContent(s, format) ==
    /\ url.pc = "idle"
    /\ LET content == getQRContent(s, format)
       IN  url' = [url EXCEPT !.pc = IF format = "compact" THEN "text" ELSE "done",
                              !.op = format, !.specimen = s,
                              !.text = content.chars, !.json = content.json]
    /\ UNCHANGED <<SPECIES_CODES, SPECIES_TO_CODE, otherThanCompactUrl>>

\* a URL arrives that this library did not write
ReceiveUrl(text) ==
    /\ url.pc = "idle"
    /\ url' = [url EXCEPT !.pc = "text", !.op = "received", !.text = text]
    /\ UNCHANGED <<SPECIES_CODES, SPECIES_TO_CODE, otherThanCompactUrl>>

ParseCompactUrl ==
    /\ url.pc = "text"
    /\ url' = [url EXCEPT !.pc = "done", !.result = parseCompactUrl(SPECIES_CODES, url.text)]
    /\ UNCHANGED <<SPECIES_CODES, SPECIES_TO_CODE, otherThanCompactUrl>>

NextCompactUrl ==
    \/ \E code \in CodeInputs, species \in SpeciesInputs2 : RegisterSpeciesCode(code, species)
    \/ \E s \in UrlSpecimens : ToCompactUrl(s)
    \/ \E s \in UrlSpecimens, format \in QRFormats : QRContent(s, format)
    \/ \E text \in UrlInputs : ReceiveUrl(text)
    \/ ParseCompactUrl

SpecCompactUrl == InitCompactUrl /\ [][NextCompactUrl]_vars

-----------------------------------------------------------------------------
(* Claims C8 and C9.                                                       *)

\* C8: after any sequence of registerSpeciesCode calls, for every specimen s
\* whose species has a code (getCodeFromSpecies(s.species) is defined),
\* parseCompactUrl(toCompactUrl(s)) succeeds and returns exactly s.species.
C8_SpeciesSurvivesCompactUrl ==
    (/\ url.pc = "done" /\ url.op = "toCompactUrl"
     /\ getCodeFromSpecies(SPECIES_TO_CODE, ToChars(Get(url.specimen, "species"))).k
            # "undefined") =>
        /\ url.result.success
        /\ Get(url.result.data, "species") = Get(url.specimen, "species")

\* C9: the content of a QR code of format compact is exactly what the
\* compact-url module's toCompactUrl writes for the specimen, so that
\* parseCompactUrl of it gives back the specimen's id, species, type and stage.
C9_QRContentIsCompactUrl ==
    (url.op = "compact" /\ url.pc \in {"text", "done"}) =>
        /\ url.text = toCompactUrl(SPECIES_TO_CODE, url.specimen)
        /\ url.pc = "done" =>
               /\ url.result.success
               /\ \A key \in {"id", "species", "type", "stage"} :
                      Get(url.result.data, key) = Get(url.specimen, key)

-----------------------------------------------------------------------------
(* Claim C20.                                                              *)

\* the segments of the path of a URL that has the scheme prefix: what lies
\* between wemush:// and the first question mark, cut at the slashes
PathSegmentsOf(text) == Split(Split(Drop(text, 9), "?")[1], "/")

\* the URL lacks the scheme prefix, a version segment or a non-empty id
\* segment, or its version segment is not v1
NotCompactV1(text) ==
    IF ~StartsWith(text, <<"w", "e", "m", "u", "s", "h", ":", "/", "/">>) THEN TRUE
    ELSE LET segments == PathSegmentsOf(text)
         IN  \/ segments[1] = <<>>
             \/ Len(segments) < 2
             \/ segments[2] = <<>>
             \/ segments[1] # <<"v", "1">>

\* C20: parseCompactUrl fails with the invalid-URL code, and never succeeds,
\* on every URL without the wemush:// prefix, without a version segment,
\* without a non-empty id segment, or with a version segment other than v1.
C20_OnlyV1UrlsParse ==
    (url.pc = "done" /\ url.op \in {"received", "toCompactUrl", "compact"}
                     /\ NotCompactV1(url.text)) =>
        ~url.result.success /\ url.result.error.code = "WOLS_INVALID_URL"

-----------------------------------------------------------------------------
(* Claim C28.                                                              *)

\* the own keys of a table
TableKeys(table) == {table.v[i][1] : i \in 1..Len(table.v)}

\* a species that some registered code decodes to and that has no code
Orphaned ==
    {ToChars(getSpeciesFromCode(SPECIES_CODES, code)) : code \in TableKeys(SPECIES_CODES)}
        \ TableKeys(SPECIES_TO_CODE)

\* C28: after any registerSpeciesCode calls the two tables agree: the code
\* that getCodeFromSpecies gives for a species decodes to that species, and
\* every species that a registered code decodes to has a code.
C28_TablesAgree ==
    /\ \A species \in TableKeys(SPECIES_TO_CODE) :
           getSpeciesFromCode(SPECIES_CODES,
                              ToChars(getCodeFromSpecies(SPECIES_TO_CODE, species)))
               = Str(species)
    /\ Orphaned = {}

\* the half of C28 that holds: from species to code and back
CodeOfSpeciesDecodes ==
    \A species \in TableKeys(SPECIES_TO_CODE) :
        getSpeciesFromCode(SPECIES_CODES,
                           ToChars(getCodeFromSpecies(SPECIES_TO_CODE, species)))
            = Str(species)

-----------------------------------------------------------------------------
(* registerTypeAlias(), registerPlatformType() and createSpecimen() at     *)
(* work.                                                                   *)

TypeNameInputs ==
    {<<"C", "U", "L", "T", "U", "R", "E">>, <<"c", "u", "l", "t", "u", "r", "e">>, <<"L", "I", "Q", "U", "I", "D", "_", "C", "U", "L", "T", "U", "R", "E">>, <<"M", "y", "c", "e", "l", "i", "u", "m">>, <<"m", "y", "c", "e", "l", "i", "u", "m", " ", "b", "l", "o", "c", "k">>,
     <<"C", "O", "M", "P", "L", "E", "T", "E", "L", "Y", "_", "I", "N", "V", "A", "L", "I", "D", "_", "T", "Y", "P", "E">>}

AliasInputs == {<<"M", "y", "c", "e", "l", "i", "u", "m">>, <<"c", "u", "l", "t", "u", "r", "e">>}
AliasTargets == {<<"S", "P", "A", "W", "N">>, <<"S", "U", "B", "S", "T", "R", "A", "T", "E">>}
PlatformTypeInputs == {<<"M", "y", "c", "e", "l", "i", "u", "m", " ", "B", "l", "o", "c", "k">>}

\* SpecimenInput: what createSpecimen is called with
CreateInputs ==
    {ObjectLiteral(<< <<"type", Str(r.type)>>, <<"species", r.species>>,
                      <<"strain", r.strain>>, <<"stage", r.stage>> >>) :
        r \in [type : TypeNameInputs,
               species : {Str(<<"P", "l", "e", "u", "r", "o", "t", "u", "s", " ", "o", "s", "t", "r", "e", "a", "t", "u", "s">>), Str(<<>>)},
               strain : {Undefined, Str(<<"B", "l", "u", "e", " ", "O", "y", "s", "t", "e", "r">>), Str(<<>>), SomeStrain,
                         Obj(<< <<"name", Str(<<"B", "l", "u", "e", " ", "O", "y", "s", "t", "e", "r">>)>>,
                                <<"generation", Str(<<"G", "1">>)>> >>)},
               stage : {Undefined, Str(<<"C", "O", "L", "O", "N", "I", "Z", "A", "T", "I", "O", "N">>)}]}

\* where the library runs: Date.now() is now.high * 36^4 + now.low; Node.js,
\* a browser, and a runtime with neither a process nor a navigator
Environments ==
    {[now |-> [high |-> 1034127, low |-> 744768], pid |-> 4242, hrtime |-> 123456789,
      navigator |-> FALSE, userAgentLength |-> 0, languageLength |-> 0,
      bytes |-> [i \in 1..DEFAULT_LENGTH |-> 255]],
     [now |-> [high |-> 1034127, low |-> 744768], pid |-> 0, hrtime |-> -1,
      navigator |-> TRUE, userAgentLength |-> 115, languageLength |-> 5,
      bytes |-> [i \in 1..DEFAULT_LENGTH |-> (37 * i) % 256]],
     [now |-> [high |-> 0, low |-> 35], pid |-> 0, hrtime |-> -1,
      navigator |-> FALSE, userAgentLength |-> 0, languageLength |-> 0,
      bytes |-> [i \in 1..DEFAULT_LENGTH |-> 0]]}

\* the counter of the ids: a fresh module, and one that is about to start again
CounterInputs == {0, CounterModulus - 1}

InitSpecimen ==
    /\ MigrationIdle /\ ValidationIdle /\ ParserIdle /\ CryptoIdle /\ CompactUrlIdle
    /\ CompareIdle /\ QRIdle
    /\ TYPE_ALIAS_REGISTRY = InitialTypeAliases
    /\ counter \in CounterInputs
    /\ cre = CreIdle

RegisterTypeAlias(alias, wolsType) ==
    /\ cre.pc = "idle"
    /\ TYPE_ALIAS_REGISTRY' = registerTypeAlias(TYPE_ALIAS_REGISTRY, alias, wolsType)
    /\ UNCHANGED <<counter, cre, otherThanSpecimen>>

RegisterPlatformType(platformType, wolsType) ==
    /\ cre.pc = "idle"
    /\ TYPE_ALIAS_REGISTRY' = registerPlatformType(TYPE_ALIAS_REGISTRY, platformType, wolsType)
    /\ UNCHANGED <<counter, cre, otherThanSpecimen>>

CreateSpecimen(input, env) ==
    /\ cre.pc = "idle"
    /\ counter' = createSpecimenId(env, counter).counter
    /\ cre' = [cre EXCEPT !.pc = "done", !.input = input,
                          !.result = createSpecimen(TYPE_ALIAS_REGISTRY, env, counter, input)]
    /\ UNCHANGED <<TYPE_ALIAS_REGISTRY, otherThanSpecimen>>

NextSpecimen ==
    \/ \E alias \in AliasInputs, wolsType \in AliasTargets : RegisterTypeAlias(alias, wolsType)
    \/ \E platformType \in PlatformTypeInputs : RegisterPlatformType(platformType, <<"S", "U", "B", "S", "T", "R", "A", "T", "E">>)
    \/ \E input \in CreateInputs, env \in Environments : CreateSpecimen(input, env)

SpecSpecimen == InitSpecimen /\ [][NextSpecimen]_vars

-----------------------------------------------------------------------------
(* Claim C21.                                                              *)

CreateDone == cre.pc = "done"

\* C21: createSpecimen resolves input.type through the alias table.  When the
\* result is a canonical type, the record returned has that type, the JSON-LD
\* markers, version WOLS_VERSION, an id of the form wemush:[a-z0-9]+ and a
\* strain that is an object if it is there at all, a string n having become
\* {name: n}; otherwise createSpecimen throws an error that says "Invalid
\* specimen type" and returns no record.
C21_CreateResolvesAlias ==
    CreateDone =>
        LET resolved == resolveTypeAlias(TYPE_ALIAS_REGISTRY, Get(cre.input, "type").v)
            s == cre.result.specimen
            strain == Get(cre.input, "strain")
        IN  IF Includes(SPECIMEN_TYPES, resolved)
            THEN /\ ~cre.result.thrown
                 /\ Get(s, "type") = Str(resolved)
                 /\ Get(cre.input, "type").v = <<"L", "I", "Q", "U", "I", "D", "_", "C", "U", "L", "T", "U", "R", "E">> => Get(s, "type") = Str(<<"C", "U", "L", "T", "U", "R", "E">>)
                 /\ Get(s, "@context") = Str(WOLS_CONTEXT)
                 /\ Get(s, "@type") = Str(<<"S", "p", "e", "c", "i", "m", "e", "n">>)
                 /\ Get(s, "version") = Str(WOLS_VERSION)
                 /\ Get(s, "id").k = "string" /\ SPECIMEN_ID_PATTERN(Get(s, "id").v)
                 /\ Get(s, "strain").k \in {"undefined", "object"}
                 /\ strain.k = "string" => Get(s, "strain") = Obj(<< <<"name", strain>> >>)
            ELSE /\ cre.result.thrown
                 /\ cre.result.message[1] = "Invalid specimen type:"
                 /\ cre.result.specimen = Undefined

\* the alias LIQUID_CULTURE and a bare-string strain: a CULTURE whose strain
\* is an object
C21_Witness ==
    /\ CreateDone
    /\ Get(cre.input, "type") = Str(<<"L", "I", "Q", "U", "I", "D", "_", "C", "U", "L", "T", "U", "R", "E">>)
    /\ Get(cre.input, "strain") = Str(<<"B", "l", "u", "e", " ", "O", "y", "s", "t", "e", "r">>)
    /\ ~cre.result.thrown
    /\ Get(cre.result.specimen, "type") = Str(<<"C", "U", "L", "T", "U", "R", "E">>)
    /\ Get(cre.result.specimen, "strain") = Obj(<< <<"name", Str(<<"B", "l", "u", "e", " ", "O", "y", "s", "t", "e", "r">>)>> >>)

-----------------------------------------------------------------------------
(* Claim C22.                                                              *)

\* s.toLowerCase(), for the ASCII letters
LowerCased(s) ==
    [i \in 1..Len(s) |->
        IF CharCode(s[i]) >= 65 /\ CharCode(s[i]) <= 90 THEN CharOf(CharCode(s[i]) + 32)
        ELSE s[i]]

\* the canonical type names
CanonicalNames == {SPECIMEN_TYPES[i] : i \in 1..Len(SPECIMEN_TYPES)}

\* a canonical name in upper case, in lower case and with a capital
LetterCases(name) == {name, LowerCased(name), <<name[1]>> \o LowerCased(Tail(name))}

\* the strings resolveTypeAlias is asked about
ResolveInputs ==
    TypeNameInputs \cup AliasInputs \cup PlatformTypeInputs
        \cup {TYPE_ALIAS_REGISTRY[i][1] : i \in 1..Len(TYPE_ALIAS_REGISTRY)}
        \cup {<<"l", "c">>, <<"A", "g", "a", "r">>, <<"f", "i", "r", "s", "t", "_", "f", "l", "u", "s", "h">>}
        \cup UNION {LetterCases(name) : name \in CanonicalNames}

\* C22: after any registerTypeAlias and registerPlatformType calls (each
\* naming a specimen type as its target), resolving twice gives what
\* resolving once gives, and a canonical type name in any letter case
\* resolves to its upper-case form even when the same name is registered as
\* an alias of another type.
C22_ResolveIdempotent ==
    cre.pc = "idle" =>
        /\ \A x \in ResolveInputs :
               resolveTypeAlias(TYPE_ALIAS_REGISTRY,
                                resolveTypeAlias(TYPE_ALIAS_REGISTRY, x))
                   = resolveTypeAlias(TYPE_ALIAS_REGISTRY, x)
        /\ \A name \in CanonicalNames : \A x \in LetterCases(name) :
               resolveTypeAlias(TYPE_ALIAS_REGISTRY, x) = name

\* culture has been registered as an alias of SPAWN, and still resolves to
\* CULTURE
C22_Witness ==
    /\ cre.pc = "idle"
    /\ MapGet(TYPE_ALIAS_REGISTRY, <<"C", "U", "L", "T", "U", "R", "E">>) = Str(<<"S", "P", "A", "W", "N">>)
    /\ MapGet(TYPE_ALIAS_REGISTRY, <<"M", "Y", "C", "E", "L", "I", "U", "M", " ", "B", "L", "O", "C", "K">>) = Str(<<"S", "U", "B", "S", "T", "R", "A", "T", "E">>)
    /\ resolveTypeAlias(TYPE_ALIAS_REGISTRY, <<"c", "u", "l", "t", "u", "r", "e">>) = <<"C", "U", "L", "T", "U", "R", "E">>
    /\ resolveTypeAlias(TYPE_ALIAS_REGISTRY, <<"M", "y", "c", "e", "l", "i", "u", "m", " ", "B", "l", "o", "c", "k">>) = <<"S", "U", "B", "S", "T", "R", "A", "T", "E">>

-----------------------------------------------------------------------------
(* Claim C29.                                                              *)

\* C29: a record that createSpecimen returns passes validateSpecimen with
\* default options, whatever the input held.
C29_CreatedIsValid ==
    (CreateDone /\ ~cre.result.thrown) =>
        validateSpecimen(cre.result.specimen, NoOptions).valid

-----------------------------------------------------------------------------
(* qr/generate: the dynamic import of the optional qrcode package, shared   *)
(* by the calls that need it.  An async function runs up to its first       *)
(* pending await in the caller's turn; what follows runs in a later turn.   *)

AsyncQRCalls == {"isQRAvailable", "toQRCode", "toQRCodeDataURL", "toQRCodeSVG"}

\* a call: where it stands, the value its await of loadQRLib() gave, and what
\* its promise settled with
QRCall(kind, pc, lib, result) == [kind |-> kind, pc |-> pc, lib |-> lib, result |-> result]

\* loadQRLib() up to its await: with a load attempted it returns qrLib as it
\* is; else it marks the attempt and starts the import
loadQRLib(attempted, lib) ==
    IF attempted
    THEN [attempted |-> TRUE, importing |-> FALSE, lib |-> lib]
    ELSE [attempted |-> TRUE, importing |-> TRUE, lib |-> lib]

\* loadQRLib() after its await: module.default ?? module, or null in the catch
importSettled(canImport) == IF canImport THEN "module" ELSE "null"

\* what follows `await loadQRLib()` in isQRAvailable and in requireQRLib
afterLoad(call) ==
    IF call.kind = "isQRAvailable"
    THEN [call EXCEPT !.pc = "done", !.result = IF call.lib # "null" THEN "true" ELSE "false"]
    ELSE IF call.lib = "null"
    THEN [call EXCEPT !.pc = "done", !.result = "missingDependency"]
    ELSE [call EXCEPT !.pc = "generating"]

\* isQRAvailableSync()
isQRAvailableSync(lib) == IF lib # "null" THEN "true" ELSE "false"

InitQR ==
    /\ MigrationIdle /\ ValidationIdle /\ ParserIdle /\ CryptoIdle /\ CompactUrlIdle
    /\ SpecimenIdle /\ CompareIdle
    /\ qrLib = "null"
    /\ qrLibLoadAttempted = FALSE
    /\ installed \in BOOLEAN
    /\ imports = 0
    /\ calls = <<>>

\* isQRAvailable(), toQRCode(), toQRCodeDataURL() or toQRCodeSVG() is called
StartQRCall(kind) ==
    /\ Len(calls) < MaxCalls
    /\ LET load == loadQRLib(qrLibLoadAttempted, qrLib)
       IN  /\ qrLibLoadAttempted' = load.attempted
           /\ imports' = IF load.importing THEN imports + 1 ELSE imports
           /\ calls' = Append(calls, QRCall(kind, IF load.importing THEN "importing"
                                                  ELSE "loaded", load.lib, "pending"))
    /\ UNCHANGED <<qrLib, installed, otherThanQR>>

\* the import started by call c resolves or rejects
ImportSettles(c) ==
    /\ calls[c].pc = "importing"
    /\ qrLib' = importSettled(installed)
    /\ calls' = [calls EXCEPT ![c].pc = "loaded", ![c].lib = importSettled(installed)]
    /\ UNCHANGED <<qrLibLoadAttempted, installed, imports, otherThanQR>>

\* call c goes on after its await of loadQRLib()
ResumeQRCall(c) ==
    /\ calls[c].pc = "loaded"
    /\ calls' = [calls EXCEPT ![c] = afterLoad(calls[c])]
    /\ UNCHANGED <<qrLib, qrLibLoadAttempted, installed, imports, otherThanQR>>

\* the library's toBuffer, toDataURL or toString settles: the image, or the
\* library's error wrapped as SIZE_EXCEEDED
GenerateSettles(c, fits) ==
    /\ calls[c].pc = "generating"
    /\ calls' = [calls EXCEPT ![c].pc = "done",
                              ![c].result = IF fits THEN "image" ELSE "sizeExceeded"]
    /\ UNCHANGED <<qrLib, qrLibLoadAttempted, installed, imports, otherThanQR>>

\* isQRAvailableSync() is called: it answers in the caller's turn
IsQRAvailableSync ==
    /\ Len(calls) < MaxCalls
    /\ calls' = Append(calls, QRCall("isQRAvailableSync", "done", qrLib,
                                     isQRAvailableSync(qrLib)))
    /\ UNCHANGED <<qrLib, qrLibLoadAttempted, installed, imports, otherThanQR>>

NextQR ==
    \/ \E kind \in AsyncQRCalls : StartQRCall(kind)
    \/ \E c \in 1..Len(calls) : ImportSettles(c)
    \/ \E c \in 1..Len(calls) : ResumeQRCall(c)
    \/ \E c \in 1..Len(calls), fits \in BOOLEAN : GenerateSettles(c, fits)
    \/ IsQRAvailableSync

SpecQR == InitQR /\ [][NextQR]_vars

-----------------------------------------------------------------------------
(* Claim C27.                                                              *)

\* the import is started at most once
ImportedAtMostOnce == imports <= 1

\* C27: with the qrcode package installed, no call of isQRAvailable,
\* toQRCode, toQRCodeDataURL or toQRCodeSVG ends with the missing-dependency
\* error or with the answer false, however the calls interleave; and the
\* import is started at most once.
C27_AvailableToEveryCall ==
    /\ installed =>
           \A c \in 1..Len(calls) :
               (calls[c].kind \in AsyncQRCalls /\ calls[c].pc = "done") =>
                   calls[c].result \notin {"missingDependency", "false"}
    /\ imports <= 1

====
